---- MODULE Spec2Model ----
(***************************************************************************)
(* SuperPoll (ton-apicha/poll-v2): the relational store of                 *)
(* src/core/database.py, the voter page run of src/views/voter_ui.py and   *)
(* src/app.py, and the admin handlers of src/views/admin_ui.py that write  *)
(* to the store.                                                           *)
(*                                                                         *)
(* The store is one record, db, with one field per table (a set of rows)   *)
(* and the AUTOINCREMENT counters in db.seq.  Every function of            *)
(* database.py is an operator from a store to a store (writes) or from a   *)
(* store to a result (reads).  A write is one sqlite transaction with one  *)
(* commit, so it is one atomic step; a function that SELECTs before it     *)
(* writes (create_question) is two steps, because python's sqlite3 opens   *)
(* the transaction only at the first INSERT/UPDATE/DELETE.                 *)
(*                                                                         *)
(* Columns that no modelled statement reads (titles, texts, colours,       *)
(* image urls, timestamps, user agent) are left out of the rows.           *)
(***************************************************************************)
EXTENDS Integers, Sequences, FiniteSets, TLC

(***************************************************************************)
(* Bounds of the model                                                     *)
(***************************************************************************)
MaxCampaignId == 2
MaxQuestionId == 3
MaxOptionId == 8
MaxResponseId == 2
MaxNewOptions == 2
MaxSel == 2
MaxAdminOps == 2
MaxPresses == 4
MaxStoredRows == 1
MaxAttributeId == 2
MaxVotes == 3

Voters == {"v1", "v2"}
Admins == {"a1", "a2"}

(***************************************************************************)
(* Small helpers                                                           *)
(***************************************************************************)
Range(s) == {s[i] : i \in DOMAIN s}

RECURSIVE SortRows(_)
\* ORDER BY display_order (rows with equal display_order in rowid order)
SortRows(S) ==
    IF S = {} THEN <<>>
    ELSE LET m == CHOOSE x \in S : \A y \in S :
                      \/ x.display_order < y.display_order
                      \/ x.display_order = y.display_order /\ x.id <= y.id
         IN <<m>> \o SortRows(S \ {m})

RECURSIVE SumSeq(_)
SumSeq(s) == IF s = <<>> THEN 0 ELSE Head(s) + SumSeq(Tail(s))

MaxOf(S) == CHOOSE x \in S : \A y \in S : y <= x

\* the sequences over S of length at most n
SeqsUpTo(S, n) == UNION {[1..k -> S] : k \in 0..n}

(***************************************************************************)
(* Python values.  None, an int and a list are one shape of record so that *)
(* they can be compared: k is the python type, v the content.              *)
(***************************************************************************)
PyNone == [k |-> "none", v |-> <<>>]
PyInt(i) == [k |-> "int", v |-> <<i>>]
PyList(s) == [k |-> "list", v |-> s]

\* a TEXT column: SQL NULL, or a string given as its sequence of tokens
SqlNull == [isnull |-> TRUE, txt |-> <<>>]
SqlText(t) == [isnull |-> FALSE, txt |-> t]
\* python truthiness of a fetched TEXT column: None and "" are falsy
Truthy(col) == ~col.isnull /\ col.txt # <<>>

(***************************************************************************)
(* A python dict with string keys and string values is the sequence of its *)
(* <<key, value>> items in insertion order.  PyDictNone is the value None  *)
(* where a dict is expected.                                               *)
(***************************************************************************)
DictKeys(d) == {d[i][1] : i \in DOMAIN d}

DictGet(d, key, default) ==
    IF key \in DictKeys(d)
    THEN LET i == CHOOSE j \in DOMAIN d : d[j][1] = key IN d[i][2]
    ELSE default

\* d[key] = value: an existing key keeps its position
DictSet(d, key, value) ==
    IF key \in DictKeys(d)
    THEN [i \in DOMAIN d |-> IF d[i][1] = key THEN <<key, value>> ELSE d[i]]
    ELSE Append(d, <<key, value>>)

\* python's == on two dicts: same keys, same values, order not significant
DictEq(d1, d2) ==
    /\ DictKeys(d1) = DictKeys(d2)
    /\ \A key \in DictKeys(d1) : DictGet(d1, key, "") = DictGet(d2, key, "")


\* a dict argument that may be None (location_data: dict = None)
NoneDict == [isnone |-> TRUE, d |-> <<>>]
SomeDict(d) == [isnone |-> FALSE, d |-> d]

(***************************************************************************)
(* json.dumps / json.loads on dicts of strings.  A JSON text is the        *)
(* sequence of its tokens: "{", then key ":" value items separated by ",", *)
(* then "}".                                                               *)
(***************************************************************************)
JsonPunct == {"{", "}", ":", ","}

RECURSIVE JsonItems(_)
JsonItems(d) ==
    IF d = <<>> THEN <<>>
    ELSE <<Head(d)[1], ":", Head(d)[2]>>
         \o (IF Tail(d) = <<>> THEN <<>> ELSE <<",">> \o JsonItems(Tail(d)))

json_dumps(d) == <<"{">> \o JsonItems(d) \o <<"}">>

\* does the token sequence parse as a JSON object of strings
JsonWellFormed(t) ==
    /\ Len(t) >= 2
    /\ t[1] = "{"
    /\ t[Len(t)] = "}"
    /\ LET inner == SubSeq(t, 2, Len(t) - 1)
       IN \/ inner = <<>>
          \/ /\ Len(inner) % 4 = 3
             /\ \A i \in DOMAIN inner :
                   CASE i % 4 = 1 -> inner[i] \notin JsonPunct
                     [] i % 4 = 2 -> inner[i] = ":"
                     [] i % 4 = 3 -> inner[i] \notin JsonPunct
                     [] OTHER     -> inner[i] = ","

RECURSIVE JsonParseItems(_, _)
JsonParseItems(inner, acc) ==
    IF Len(inner) < 3 THEN acc
    ELSE JsonParseItems(SubSeq(inner, 5, Len(inner)),
                        DictSet(acc, inner[1], inner[3]))

\* json.loads: ok = FALSE stands for the JSONDecodeError it raises
json_loads(t) ==
    IF JsonWellFormed(t)
    THEN [ok |-> TRUE, d |-> JsonParseItems(SubSeq(t, 2, Len(t) - 1), <<>>)]
    ELSE [ok |-> FALSE, d |-> <<>>]

\* "json.loads(x) if x else {}" inside try/except: {} on a falsy column and
\* on a decode failure
SafeLoads(col) ==
    IF ~Truthy(col) THEN <<>>
    ELSE LET r == json_loads(col.txt) IN IF r.ok THEN r.d ELSE <<>>

(***************************************************************************)
(* The seed rows of init_db                                                *)
(***************************************************************************)
\* create_default_demographics: name, label, input type, order, options
DefaultAttributes ==
    << [name |-> "district", label |-> "amphoe", input_type |-> "select",
        order |-> 1, options |-> <<"takuapa", "thaimueang", "kuraburi", "kapong">>],
       [name |-> "area", label |-> "phuenthi", input_type |-> "select",
        order |-> 2, options |-> <<"municipal", "rural">>],
       [name |-> "generation", label |-> "gen", input_type |-> "select",
        order |-> 3, options |-> <<"genz", "geny", "genx", "boomer">>],
       [name |-> "gender", label |-> "phet", input_type |-> "select",
        order |-> 4, options |-> <<"male", "female", "other">>] >>

\* create_default_campaign: the sample question has four options
DefaultOptionCount == 4
sample_options ==
    [i \in 1..DefaultOptionCount |->
        <<"candidate 1", "candidate 2", "candidate 3", "undecided">>[i]]

\* the literal that get_demographic_breakdown counts an absent field under
NotSpecified == "mai-rabu"

EmptyStore ==
    [ campaigns |-> {}, questions |-> {}, options |-> {},
      responses |-> {}, response_details |-> {},
      demographic_attributes |-> {}, demographic_options |-> {},
      campaign_demographics |-> {}, images |-> {}, settings |-> {},
      seq |-> [ campaigns |-> 0, questions |-> 0, options |-> 0,
                responses |-> 0, response_details |-> 0,
                demographic_attributes |-> 0, demographic_options |-> 0,
                images |-> 0, settings |-> 0 ] ]

\* create_default_settings: key and value
default_settings ==
    << <<"server_url", "http://localhost:8501">>,
       <<"app_name", "SuperPoll">>,
       <<"admin_password", "superpoll2025">> >>

RECURSIVE InsertOrIgnoreSettings(_, _)
\* INSERT OR IGNORE INTO settings: a key that is there is left alone
InsertOrIgnoreSettings(d, items) ==
    IF items = <<>> THEN d
    ELSE InsertOrIgnoreSettings(
           IF \E x \in d.settings : x.key = Head(items)[1] THEN d
           ELSE [d EXCEPT
                   !.settings = @ \cup
                      {[id |-> d.seq.settings + 1, key |-> Head(items)[1],
                        value |-> Head(items)[2]]},
                   !.seq.settings = @ + 1],
           Tail(items))

create_default_settings(d) == InsertOrIgnoreSettings(d, default_settings)

\* rows of an option list inserted for question q: ids in list order,
\* display_order = position (enumerate starts at 0)
NewOptionRows(d, q, options) ==
    { [id |-> d.seq.options + i, question_id |-> q,
       option_text |-> options[i], display_order |-> i - 1]
      : i \in DOMAIN options }

RECURSIVE InsertAttributes(_, _)
InsertAttributes(d, attrs) ==
    IF attrs = <<>> THEN d
    ELSE LET a == Head(attrs)
             aid == d.seq.demographic_attributes + 1
             n == Len(a.options)
             d1 == [d EXCEPT
                     !.demographic_attributes = @ \cup
                        {[id |-> aid, name |-> a.name, label |-> a.label,
                          input_type |-> a.input_type,
                          display_order |-> a.order, is_active |-> TRUE]},
                     !.demographic_options = @ \cup
                        {[id |-> d.seq.demographic_options + i,
                          attribute_id |-> aid, option_text |-> a.options[i],
                          display_order |-> i - 1] : i \in 1..n},
                     !.seq.demographic_attributes = aid,
                     !.seq.demographic_options = @ + n]
         IN InsertAttributes(d1, Tail(attrs))

create_default_demographics(d) == InsertAttributes(d, DefaultAttributes)

create_default_campaign(d) ==
    LET cid == d.seq.campaigns + 1
        qid == d.seq.questions + 1
    IN [d EXCEPT
         !.campaigns = @ \cup {[id |-> cid, is_active |-> TRUE]},
         !.questions = @ \cup
            {[id |-> qid, campaign_id |-> cid, question_type |-> "single",
              max_selections |-> 1, display_order |-> 1]},
         !.options = @ \cup NewOptionRows(d, qid, sample_options),
         !.seq.campaigns = cid,
         !.seq.questions = qid,
         !.seq.options = @ + DefaultOptionCount]

\* init_db without the COUNT(*) test of campaigns
init_db_seeding_campaign(d) ==
    LET d0 == IF d.settings = {} THEN create_default_settings(d) ELSE d
        d1 == IF d0.demographic_attributes = {}
              THEN create_default_demographics(d0) ELSE d0
    IN create_default_campaign(d1)

\* init_db: the tables exist; seed rows go into a table that is empty
init_db(d) ==
    LET d0 == IF d.settings = {} THEN create_default_settings(d) ELSE d
        d1 == IF d0.demographic_attributes = {}
              THEN create_default_demographics(d0) ELSE d0
    IN IF d1.campaigns = {} THEN create_default_campaign(d1) ELSE d1

(***************************************************************************)
(* Campaign functions                                                      *)
(***************************************************************************)
Ids(rows) == {r.id : r \in rows}

create_campaign(d) ==
    [d EXCEPT !.campaigns = @ \cup {[id |-> d.seq.campaigns + 1,
                                     is_active |-> TRUE]},
              !.seq.campaigns = @ + 1]

\* fetchone(): the row, or None (ok = FALSE)
get_campaign(d, campaign_id) ==
    IF campaign_id \in Ids(d.campaigns)
    THEN [ok |-> TRUE,
          row |-> CHOOSE c \in d.campaigns : c.id = campaign_id]
    ELSE [ok |-> FALSE, row |-> [id |-> 0, is_active |-> FALSE]]

toggle_campaign_status(d, campaign_id) ==
    [d EXCEPT !.campaigns =
        {IF c.id = campaign_id THEN [c EXCEPT !.is_active = ~@] ELSE c
         : c \in @}]

\* delete_campaign without its first statement, the DELETE FROM
\* response_details
delete_campaign_keeping_details(d, campaign_id) ==
    [d EXCEPT
      !.responses = {x \in @ : x.campaign_id # campaign_id},
      !.options = {x \in @ : x.question_id \notin
                     {q.id : q \in {y \in d.questions :
                                       y.campaign_id = campaign_id}}},
      !.questions = {x \in @ : x.campaign_id # campaign_id},
      !.campaigns = {x \in @ : x.id # campaign_id}]

delete_campaign(d, campaign_id) ==
    LET rids == {r.id : r \in {x \in d.responses : x.campaign_id = campaign_id}}
        qids == {q.id : q \in {x \in d.questions : x.campaign_id = campaign_id}}
    IN [d EXCEPT
         !.response_details = {x \in @ : x.response_id \notin rids},
         !.responses = {x \in @ : x.campaign_id # campaign_id},
         !.options = {x \in @ : x.question_id \notin qids},
         !.questions = {x \in @ : x.campaign_id # campaign_id},
         !.campaigns = {x \in @ : x.id # campaign_id}]

(***************************************************************************)
(* Question functions                                                      *)
(***************************************************************************)
\* SELECT MAX(display_order) ...; display_order = (result or 0) + 1
next_display_order(d, campaign_id) ==
    LET orders == {q.display_order :
                     q \in {x \in d.questions : x.campaign_id = campaign_id}}
        result == IF orders = {} THEN 0 ELSE MaxOf(orders)
    IN result + 1

\* the INSERTs and the commit of create_question, display_order as read
insert_question(d, campaign_id, question_type, max_selections, options, display_order) ==
    LET qid == d.seq.questions + 1
    IN [d EXCEPT
         !.questions = @ \cup
            {[id |-> qid, campaign_id |-> campaign_id,
              question_type |-> question_type,
              max_selections |-> max_selections,
              display_order |-> display_order]},
         !.options = @ \cup NewOptionRows(d, qid, options),
         !.seq.questions = qid,
         !.seq.options = @ + Len(options)]

\* a question with its options in display order
WithOptions(d, q) ==
    [id |-> q.id, campaign_id |-> q.campaign_id,
     question_type |-> q.question_type, max_selections |-> q.max_selections,
     display_order |-> q.display_order,
     options |-> SortRows({o \in d.options : o.question_id = q.id})]

get_questions(d, campaign_id) ==
    LET qs == SortRows({q \in d.questions : q.campaign_id = campaign_id})
    IN [i \in DOMAIN qs |-> WithOptions(d, qs[i])]

\* if not row: return None (ok is FALSE); else the question with its options
get_question(d, question_id) ==
    IF question_id \in Ids(d.questions)
    THEN [ok |-> TRUE,
          row |-> WithOptions(d, CHOOSE q \in d.questions : q.id = question_id)]
    ELSE [ok |-> FALSE, row |-> [id |-> 0]]

\* update_question without its DELETE FROM options
update_question_appending(d, question_id, question_type, max_selections, options) ==
    [d EXCEPT
      !.questions = {IF q.id = question_id
                     THEN [q EXCEPT !.question_type = question_type,
                                    !.max_selections = max_selections]
                     ELSE q : q \in @},
      !.options = @ \cup NewOptionRows(d, question_id, options),
      !.seq.options = @ + Len(options)]

update_question(d, question_id, question_type, max_selections, options) ==
    [d EXCEPT
      !.questions = {IF q.id = question_id
                     THEN [q EXCEPT !.question_type = question_type,
                                    !.max_selections = max_selections]
                     ELSE q : q \in @},
      !.options = {o \in @ : o.question_id # question_id}
                  \cup NewOptionRows(d, question_id, options),
      !.seq.options = @ + Len(options)]

\* delete_question without its DELETE FROM response_details
delete_question_keeping_details(d, question_id) ==
    [d EXCEPT
      !.options = {x \in @ : x.question_id # question_id},
      !.questions = {x \in @ : x.id # question_id}]

delete_question(d, question_id) ==
    [d EXCEPT
      !.response_details = {x \in @ : x.question_id # question_id},
      !.options = {x \in @ : x.question_id # question_id},
      !.questions = {x \in @ : x.id # question_id}]

(***************************************************************************)
(* Response functions                                                      *)
(***************************************************************************)
\* answers.items(): the sequence of <<question_id, selection>>, a selection
\* being a python list of option ids or one option id; the rows to insert,
\* in insertion order
RECURSIVE DetailPairsListsOnly(_)
\* the loop without its else branch: a selection that is not a list
\* inserts nothing
DetailPairsListsOnly(answers) ==
    IF answers = <<>> THEN <<>>
    ELSE LET question_id == Head(answers)[1]
             option_ids == Head(answers)[2]
         IN (IF option_ids.k = "list"
             THEN [i \in DOMAIN option_ids.v |->
                     <<question_id, option_ids.v[i]>>]
             ELSE <<>>)
            \o DetailPairsListsOnly(Tail(answers))

RECURSIVE DetailPairs(_)
DetailPairs(answers) ==
    IF answers = <<>> THEN <<>>
    ELSE LET question_id == Head(answers)[1]
             option_ids == Head(answers)[2]
         IN (IF option_ids.k = "list"
             THEN [i \in DOMAIN option_ids.v |->
                     <<question_id, option_ids.v[i]>>]
             ELSE << <<question_id, option_ids.v[1]>> >>)
            \o DetailPairs(Tail(answers))

submit_response(d, campaign_id, demographic_data, answers, ip_address, location_data) ==
    LET response_id == d.seq.responses + 1
        pairs == DetailPairs(answers)
    IN [d EXCEPT
         !.responses = @ \cup
            {[id |-> response_id, campaign_id |-> campaign_id,
              demographic_data |-> SqlText(json_dumps(demographic_data)),
              ip_address |-> ip_address,
              location_data |->
                 IF ~location_data.isnone /\ location_data.d # <<>>
                 THEN SqlText(json_dumps(location_data.d))
                 ELSE SqlNull]},
         !.response_details = @ \cup
            {[id |-> d.seq.response_details + i, response_id |-> response_id,
              question_id |-> pairs[i][1], option_id |-> pairs[i][2]]
             : i \in DOMAIN pairs},
         !.seq.responses = response_id,
         !.seq.response_details = @ + Len(pairs)]

get_response_count(d, campaign_id) ==
    Cardinality({r \in d.responses : r.campaign_id = campaign_id})

\* get_voter_logs that decodes demographic_data only and leaves
\* location_data the empty map
get_voter_logs_without_location(d, campaign_id) ==
    { [id |-> r.id, campaign_id |-> r.campaign_id,
       ip_address |-> r.ip_address,
       demographic_data |-> SafeLoads(r.demographic_data),
       location_data |-> <<>>]
      : r \in {x \in d.responses : x.campaign_id = campaign_id} }

\* the log entries, as a set: created_at has a resolution of one second, so
\* the order of entries of the same second is not determined
get_voter_logs(d, campaign_id) ==
    { [id |-> r.id, campaign_id |-> r.campaign_id,
       ip_address |-> r.ip_address,
       demographic_data |-> SafeLoads(r.demographic_data),
       location_data |-> SafeLoads(r.location_data)]
      : r \in {x \in d.responses : x.campaign_id = campaign_id} }

\* reset_responses without its DELETE FROM response_details
reset_responses_keeping_details(d, campaign_id) ==
    [d EXCEPT !.responses = {x \in @ : x.campaign_id # campaign_id}]

reset_responses(d, campaign_id) ==
    LET rids == {r.id : r \in {x \in d.responses : x.campaign_id = campaign_id}}
    IN [d EXCEPT
         !.response_details = {x \in @ : x.response_id \notin rids},
         !.responses = {x \in @ : x.campaign_id # campaign_id}]

(***************************************************************************)
(* Natural numbers of any size, as the sequence of their base-2^15 digits, *)
(* least significant first (<<>> is 0): a 53-bit significand does not fit  *)
(* a 32-bit integer.                                                       *)
(***************************************************************************)
LimbBits == 15
LimbBase == 2 ^ LimbBits

Zeros(n) == [i \in 1..n |-> 0]

RECURSIVE NatTrim(_)
\* without leading zero digits
NatTrim(a) ==
    IF a # <<>> /\ a[Len(a)] = 0 THEN NatTrim(SubSeq(a, 1, Len(a) - 1)) ELSE a

RECURSIVE NatFromInt(_)
NatFromInt(n) ==
    IF n = 0 THEN <<>> ELSE <<n % LimbBase>> \o NatFromInt(n \div LimbBase)

RECURSIVE NatAdd(_, _, _)
\* a + b + carry
NatAdd(a, b, carry) ==
    IF a = <<>> /\ b = <<>> THEN (IF carry = 0 THEN <<>> ELSE <<carry>>)
    ELSE LET v == (IF a = <<>> THEN 0 ELSE Head(a))
                  + (IF b = <<>> THEN 0 ELSE Head(b)) + carry
         IN <<v % LimbBase>>
            \o NatAdd(IF a = <<>> THEN a ELSE Tail(a),
                      IF b = <<>> THEN b ELSE Tail(b), v \div LimbBase)

RECURSIVE NatMulSmall(_, _, _)
\* a * k + carry, for 0 <= k <= 2^15
NatMulSmall(a, k, carry) ==
    IF a = <<>> THEN NatFromInt(carry)
    ELSE LET v == Head(a) * k + carry
         IN <<v % LimbBase>> \o NatMulSmall(Tail(a), k, v \div LimbBase)

RECURSIVE NatDivLoop(_, _, _, _)
\* long division by t, from the top digit down; rem is the running remainder
NatDivLoop(a, t, rem, acc) ==
    IF a = <<>> THEN [q |-> NatTrim(acc), r |-> rem]
    ELSE LET cur == rem * LimbBase + a[Len(a)]
         IN NatDivLoop(SubSeq(a, 1, Len(a) - 1), t, cur % t,
                       <<cur \div t>> \o acc)

\* quotient and remainder of a by t, for 0 < t <= 2^15
NatDivSmall(a, t) == NatDivLoop(a, t, 0, <<>>)

\* a * 2^s
NatShl(a, s) ==
    IF a = <<>> THEN a
    ELSE Zeros(s \div LimbBits) \o NatMulSmall(a, 2 ^ (s % LimbBits), 0)

\* a <= b
NatLe(a, b) ==
    LET x == NatTrim(a)
        y == NatTrim(b)
    IN \/ Len(x) < Len(y)
       \/ /\ Len(x) = Len(y)
          /\ \/ x = y
             \/ \E i \in DOMAIN x : /\ x[i] < y[i]
                                    /\ \A j \in (i + 1)..Len(x) : x[j] = y[j]

\* the number of binary digits of an int n, 0 <= n < 2^30
BitLenInt(n) == CHOOSE b \in 0..30 : (b = 0 \/ 2 ^ (b - 1) <= n) /\ n < 2 ^ b

NatBitLen(a) ==
    LET x == NatTrim(a)
    IN IF x = <<>> THEN 0 ELSE LimbBits * (Len(x) - 1) + BitLenInt(x[Len(x)])

NatIsOdd(a) == a # <<>> /\ a[1] % 2 = 1

(***************************************************************************)
(* IEEE-754 binary64 arithmetic, as far as get_vote_statistics uses it:    *)
(* int / int (true division, correctly rounded) and float * int, both      *)
(* rounding to nearest, ties to even.  A double is its 53-bit significand  *)
(* m (2^52 <= m < 2^53; <<>> for zero) and the exponent e of its last bit: *)
(* the value is m * 2^e.                                                   *)
(***************************************************************************)
MantissaBits == 53

DblZero == [m |-> <<>>, e |-> 0]

\* quotient q and remainder r of a division by t, rounded to nearest, ties
\* to even; a carry out of the significand renormalises
RoundNearestEven(q, r, t, e) ==
    IF 2 * r > t \/ (2 * r = t /\ NatIsOdd(q))
    THEN LET q1 == NatTrim(NatAdd(q, <<1>>, 0))
         IN IF NatBitLen(q1) > MantissaBits
            THEN [m |-> NatDivSmall(q1, 2).q, e |-> e + 1]
            ELSE [m |-> q1, e |-> e]
    ELSE [m |-> q, e |-> e]

\* c / t for python ints 0 <= c < 2^15, 0 < t < 2^15
DblDiv(c, t) ==
    IF c = 0 THEN DblZero
    ELSE LET d == BitLenInt(c) - BitLenInt(t)
             ge == IF d >= 0 THEN c >= t * 2 ^ d ELSE c * 2 ^ (0 - d) >= t
             k == IF ge THEN MantissaBits - 1 - d ELSE MantissaBits - d
             qr == NatDivSmall(NatShl(NatFromInt(c), k), t)
         IN RoundNearestEven(qr.q, qr.r, t, 0 - k)

\* x * k for a double x and a python int 0 < k < 2^15
DblMulInt(x, k) ==
    IF x.m = <<>> THEN DblZero
    ELSE LET p == NatTrim(NatMulSmall(x.m, k, 0))
             extra == NatBitLen(p) - MantissaBits
             qr == NatDivSmall(p, 2 ^ extra)
         IN RoundNearestEven(qr.q, qr.r, 2 ^ extra, x.e + extra)

\* (opt['vote_count'] / total_votes * 100) if total_votes > 0 else 0
\* the percentage by integer division, vote_count * 100 // total_votes
PercentageFloor(vote_count, total_votes) ==
    IF total_votes > 0
    THEN [m |-> NatFromInt((vote_count * 100) \div total_votes), e |-> 0]
    ELSE DblZero

\* line 580
Percentage(vote_count, total_votes) ==
    IF total_votes > 0 THEN DblMulInt(DblDiv(vote_count, total_votes), 100)
    ELSE DblZero

(***************************************************************************)
(* The exact value of doubles, for stating properties about them           *)
(***************************************************************************)
\* the value of double x in units of 2^(-scale), scale >= -x.e
Fixed(x, scale) == NatShl(x.m, x.e + scale)

RECURSIVE SumFixed(_, _)
SumFixed(xs, scale) ==
    IF xs = <<>> THEN <<>>
    ELSE NatAdd(Fixed(Head(xs), scale), SumFixed(Tail(xs), scale), 0)

\* a scale fine enough for every double of the sequence
ScaleOf(xs) == MaxOf({0} \cup {0 - xs[i].e : i \in DOMAIN xs})

\* the doubles of xs add up to exactly the integer n
SumIs(xs, n) ==
    LET scale == ScaleOf(xs)
    IN NatTrim(SumFixed(xs, scale)) = NatShl(NatFromInt(n), scale)

\* the doubles of xs add up to the integer n within 2^(-tolbits)
SumNear(xs, n, tolbits) ==
    LET scale == MaxOf({ScaleOf(xs), tolbits})
        s == SumFixed(xs, scale)
        h == NatShl(NatFromInt(n), scale)
        tol == NatShl(<<1>>, scale - tolbits)
    IN /\ NatLe(s, NatAdd(h, tol, 0))
       /\ NatLe(h, NatAdd(s, tol, 0))

(***************************************************************************)
(* Analytics functions                                                     *)
(***************************************************************************)
\* the same query with JOIN in place of LEFT JOIN: an option without a
\* matching row is not in the result
OptionsJoinDetails(d, question_id) ==
    {[o |-> p[1], rd_id |-> p[2].id] :
       p \in {x \in {o \in d.options : o.question_id = question_id}
                     \X d.response_details :
                 x[1].id = x[2].option_id}}

\* FROM options o LEFT JOIN response_details rd ON o.id = rd.option_id
\* WHERE o.question_id = ?: one row per matching pair, and one row with a
\* NULL rd (rd_id = 0) for an option without a match
OptionsLeftJoinDetails(d, question_id) ==
    LET opts == {o \in d.options : o.question_id = question_id}
        joined == {[o |-> p[1], rd_id |-> p[2].id] :
                     p \in {x \in opts \X d.response_details :
                               x[1].id = x[2].option_id}}
        unmatched == {[o |-> o, rd_id |-> 0] :
                        o \in {x \in opts :
                                 \A rd \in d.response_details :
                                    rd.option_id # x.id}}
    IN joined \cup unmatched

\* GROUP BY o.id with COUNT(rd.id) (NULLs are not counted), ORDER BY
\* o.display_order
OptionVoteCounts(d, question_id) ==
    LET rows == OptionsLeftJoinDetails(d, question_id)
        groups == {[id |-> j.o.id, question_id |-> j.o.question_id,
                    display_order |-> j.o.display_order,
                    vote_count |-> Cardinality({x \in rows :
                                      x.o.id = j.o.id /\ x.rd_id # 0})]
                   : j \in rows}
    IN SortRows(groups)

QuestionStatistics(d, q) ==
    LET options == OptionVoteCounts(d, q.id)
        total_votes == SumSeq([i \in DOMAIN options |-> options[i].vote_count])
    IN [id |-> q.id, type |-> q.question_type,
        options |-> [i \in DOMAIN options |->
                       [id |-> options[i].id,
                        question_id |-> options[i].question_id,
                        display_order |-> options[i].display_order,
                        vote_count |-> options[i].vote_count,
                        percentage |-> Percentage(options[i].vote_count,
                                                  total_votes)]],
        total_votes |-> total_votes]

\* result['questions']
get_vote_statistics(d, campaign_id) ==
    LET qs == SortRows({q \in d.questions : q.campaign_id = campaign_id})
    IN [i \in DOMAIN qs |-> QuestionStatistics(d, qs[i])]

RECURSIVE BreakdownLoop(_, _, _)
\* the loop over the fetched rows: counts is a dict from value to count
BreakdownLoop(rows, field, acc) ==
    IF rows = <<>> THEN acc
    ELSE LET raw_data == Head(rows).demographic_data
             data == SafeLoads(raw_data)
             value == DictGet(data, field, NotSpecified)
         IN BreakdownLoop(Tail(rows), field,
               [total |-> acc.total + 1,
                counts |-> DictSet(acc.counts, value,
                                   DictGet(acc.counts, value, 0) + 1)])

RECURSIVE RowsById(_)
\* the rows of a table in rowid order
RowsById(S) ==
    IF S = {} THEN <<>>
    ELSE LET m == CHOOSE x \in S : \A y \in S : x.id <= y.id
         IN <<m>> \o RowsById(S \ {m})

\* get_demographic_breakdown with "continue" in the two branches that set
\* data = {}: a row without a map is left out
get_demographic_breakdown_skipping(d, campaign_id, field) ==
    LET rows == RowsById({r \in d.responses :
                            /\ r.campaign_id = campaign_id
                            /\ Truthy(r.demographic_data)
                            /\ json_loads(r.demographic_data.txt).ok})
        res == BreakdownLoop(rows, field, [total |-> 0, counts |-> <<>>])
    IN [total |-> res.total,
        data |-> [i \in DOMAIN res.counts |->
                    [value |-> res.counts[i][1], count |-> res.counts[i][2]]]]

get_demographic_breakdown(d, campaign_id, field) ==
    LET rows == RowsById({r \in d.responses : r.campaign_id = campaign_id})
        res == BreakdownLoop(rows, field, [total |-> 0, counts |-> <<>>])
    IN [total |-> res.total,
        data |-> [i \in DOMAIN res.counts |->
                    [value |-> res.counts[i][1], count |-> res.counts[i][2]]]]

\* GROUP_CONCAT(o.option_text) over the LEFT JOINs: the texts of the options
\* of the response's details, in rowid order of the details; a detail whose
\* option is gone contributes NULL, which is left out
Choices(d, r) ==
    LET details == RowsById({x \in d.response_details :
                               /\ x.response_id = r.id
                               /\ x.option_id \in Ids(d.options)})
    IN [i \in DOMAIN details |->
          (CHOOSE o \in d.options : o.id = details[i].option_id).option_text]

\* one exported row: the four demographic columns, the choices, the ip and
\* the three location columns
ExportedRow(d, r) ==
    LET demo == SafeLoads(r.demographic_data)
        loc == SafeLoads(r.location_data)
    IN [id |-> r.id,
        amphoe |-> DictGet(demo, "amphoe", ""),
        phuenthi |-> DictGet(demo, "phuenthi", ""),
        gen |-> DictGet(demo, "gen", ""),
        phet |-> DictGet(demo, "phet", ""),
        choices |-> Choices(d, r),
        ip |-> r.ip_address,
        city |-> DictGet(loc, "city", ""),
        country |-> DictGet(loc, "country", ""),
        isp |-> DictGet(loc, "isp", "")]

\* export_responses_data with "continue" in the except branches: a row that
\* does not decode is left out
export_responses_data_dropping(d, campaign_id) ==
    {ExportedRow(d, r) :
       r \in {x \in d.responses :
                /\ x.campaign_id = campaign_id
                /\ ~Truthy(x.demographic_data)
                     \/ json_loads(x.demographic_data.txt).ok
                /\ ~Truthy(x.location_data)
                     \/ json_loads(x.location_data.txt).ok}}

\* the exported rows, as a set (ORDER BY created_at, of one-second
\* resolution)
export_responses_data(d, campaign_id) ==
    {ExportedRow(d, r) : r \in {x \in d.responses : x.campaign_id = campaign_id}}

(***************************************************************************)
(* Demographic attribute functions                                         *)
(***************************************************************************)
\* an attribute row with the texts of its options in display order
AttributeWithOptions(d, a) ==
    LET opts == SortRows({o \in d.demographic_options : o.attribute_id = a.id})
    IN [id |-> a.id, name |-> a.name, label |-> a.label,
        input_type |-> a.input_type, display_order |-> a.display_order,
        is_active |-> a.is_active,
        options |-> [i \in DOMAIN opts |-> opts[i].option_text]]

\* if not row: return None (ok is FALSE); else the attribute with its options
get_demographic_attribute(d, attr_id) ==
    IF attr_id \in Ids(d.demographic_attributes)
    THEN [ok |-> TRUE,
          row |-> AttributeWithOptions(d,
                     CHOOSE a \in d.demographic_attributes : a.id = attr_id)]
    ELSE [ok |-> FALSE, row |-> [id |-> 0]]

get_demographic_attributes(d, active_only) ==
    LET attrs == SortRows({a \in d.demographic_attributes :
                             active_only => a.is_active})
    IN [i \in DOMAIN attrs |-> AttributeWithOptions(d, attrs[i])]

\* display_order = (MAX(display_order) or 0) + 1, is_active = 1
create_demographic_attribute(d, name, label, input_type, options) ==
    LET orders == {a.display_order : a \in d.demographic_attributes}
        result == IF orders = {} THEN 0 ELSE MaxOf(orders)
    IN InsertAttributes(d, << [name |-> name, label |-> label,
                              input_type |-> input_type,
                              order |-> result + 1, options |-> options] >>)

toggle_demographic_attribute(d, attr_id) ==
    [d EXCEPT !.demographic_attributes =
        {IF a.id = attr_id THEN [a EXCEPT !.is_active = ~@] ELSE a : a \in @}]

update_demographic_attribute(d, attr_id, name, label, input_type, options) ==
    [d EXCEPT
      !.demographic_attributes =
         {IF a.id = attr_id
          THEN [a EXCEPT !.name = name, !.label = label,
                         !.input_type = input_type]
          ELSE a : a \in @},
      !.demographic_options =
         {x \in @ : x.attribute_id # attr_id}
         \cup {[id |-> d.seq.demographic_options + i,
                attribute_id |-> attr_id, option_text |-> options[i],
                display_order |-> i - 1] : i \in DOMAIN options},
      !.seq.demographic_options = @ + Len(options)]

delete_demographic_attribute(d, attr_id) ==
    [d EXCEPT
      !.campaign_demographics = {x \in @ : x.attribute_id # attr_id},
      !.demographic_options = {x \in @ : x.attribute_id # attr_id},
      !.demographic_attributes = {x \in @ : x.id # attr_id}]

(***************************************************************************)
(* Image and settings functions.  An images row is [id, file_path], a      *)
(* settings row [id, key, value].                                          *)
(***************************************************************************)
add_image(d, file_path) ==
    [d EXCEPT !.images = @ \cup {[id |-> d.seq.images + 1,
                                  file_path |-> file_path]},
              !.seq.images = @ + 1]

delete_image(d, image_id) ==
    [d EXCEPT !.images = {x \in @ : x.id # image_id}]

\* fetchone() is None: return None (ok is FALSE)
get_image(d, image_id) ==
    IF image_id \in Ids(d.images)
    THEN [ok |-> TRUE, row |-> CHOOSE x \in d.images : x.id = image_id]
    ELSE [ok |-> FALSE, row |-> [id |-> 0, file_path |-> ""]]

\* get_setting that returns None ("") where no row has the key
get_setting_without_default(d, key, default) ==
    IF \E x \in d.settings : x.key = key
    THEN (CHOOSE x \in d.settings : x.key = key).value
    ELSE ""

\* fetchone(): the value of the row, else the default
get_setting(d, key, default) ==
    IF \E x \in d.settings : x.key = key
    THEN (CHOOSE x \in d.settings : x.key = key).value
    ELSE default

\* UPDATE if a row has the key, else INSERT
set_setting(d, key, value) ==
    IF \E x \in d.settings : x.key = key
    THEN [d EXCEPT !.settings =
            {IF x.key = key THEN [x EXCEPT !.value = value] ELSE x
             : x \in @}]
    ELSE [d EXCEPT !.settings = @ \cup {[id |-> d.seq.settings + 1,
                                         key |-> key, value |-> value]},
                   !.seq.settings = @ + 1]

\* DELETE FROM settings WHERE key = ?
delete_setting(d, key) ==
    [d EXCEPT !.settings = {x \in @ : x.key # key}]

(***************************************************************************)
(* Campaign demographics functions.  A campaign_demographics row is        *)
(* [campaign_id, attribute_id, display_order]; its own id and is_required  *)
(* are never read.                                                         *)
(***************************************************************************)
\* FROM demographic_attributes da JOIN campaign_demographics cd
\* ON da.id = cd.attribute_id WHERE cd.campaign_id = ? AND da.is_active = 1
\* ORDER BY cd.display_order
get_campaign_demographics(d, campaign_id) ==
    LET joined == {[id |-> cd.attribute_id, display_order |-> cd.display_order]
                   : cd \in {x \in d.campaign_demographics :
                       /\ x.campaign_id = campaign_id
                       /\ \E da \in d.demographic_attributes :
                             da.id = x.attribute_id /\ da.is_active}}
        ordered == SortRows(joined)
    IN [i \in DOMAIN ordered |->
          AttributeWithOptions(d, CHOOSE da \in d.demographic_attributes :
                                     da.id = ordered[i].id)]

\* attribute_ids is the list of selected ids, in the order of the form
set_campaign_demographics(d, campaign_id, attribute_ids) ==
    [d EXCEPT !.campaign_demographics =
        {x \in @ : x.campaign_id # campaign_id}
        \cup {[campaign_id |-> campaign_id, attribute_id |-> attribute_ids[i],
               display_order |-> i - 1] : i \in DOMAIN attribute_ids}]

get_campaign_demographic_ids(d, campaign_id) ==
    {x.attribute_id : x \in {y \in d.campaign_demographics :
                               y.campaign_id = campaign_id}}

(***************************************************************************)
(* The voter page run (src/app.py main, src/views/voter_ui.py)             *)
(***************************************************************************)
\* the loop over the questions of render_voter_app, lines 203-250: answers
\* is st.session_state.answers (question id -> python value), trigger the
\* button that was pressed.  The loop ends by st.rerun() after a pressed
\* option button ("rerun"), by the TypeError of "opt['id'] in
\* current_answers" when the stored answer of a multi question is not a
\* list ("crash"), or normally ("done").
ListRemove(s, x) ==
    LET i == CHOOSE j \in DOMAIN s : s[j] = x /\ \A k \in 1..(j - 1) : s[k] # x
    IN SubSeq(s, 1, i - 1) \o SubSeq(s, i + 1, Len(s))

ClickOption(question, current, option_id) ==
    IF question.question_type = "multi"
    THEN IF option_id \in Range(current.v)
         THEN PyList(ListRemove(current.v, option_id))
         ELSE IF Len(current.v) < question.max_selections
         THEN PyList(Append(current.v, option_id))
         ELSE current
    ELSE PyInt(option_id)

RECURSIVE QuestionLoop(_, _, _)
QuestionLoop(questions, answers, trigger) ==
    IF questions = <<>> THEN [outcome |-> "done", answers |-> answers]
    ELSE LET question == Head(questions)
             q == question.id
             multi == question.question_type = "multi"
             answers1 == IF q \in DOMAIN answers THEN answers
                         ELSE answers @@ (q :> (IF multi THEN PyList(<<>>)
                                                ELSE PyNone))
             option_ids == {question.options[i].id :
                              i \in DOMAIN question.options}
         IN IF question.options # <<>> /\ multi /\ answers1[q].k # "list"
            THEN [outcome |-> "crash", answers |-> answers1]
            ELSE IF trigger.kind = "option" /\ trigger.q = q
                    /\ trigger.o \in option_ids
            THEN [outcome |-> "rerun",
                  answers |-> [answers1 EXCEPT
                                 ![q] = ClickOption(question, @, trigger.o)]]
            ELSE QuestionLoop(Tail(questions), answers1, trigger)

\* lines 256-262
AllAnswered(questions, answers) ==
    \A i \in DOMAIN questions :
       LET answer == answers[questions[i].id]
       IN ~(answer.k = "none" \/ (answer.k = "list" /\ answer.v = <<>>))

\* lines 279-286: the answers dict as the sequence of its items
FormatAnswers(questions, answers) ==
    [i \in DOMAIN questions |->
       LET answer == answers[questions[i].id]
       IN <<questions[i].id,
            IF answer.k = "list" THEN answer
            ELSE IF answer.k = "int" THEN PyList(answer.v)
            ELSE PyList(<<>>)>>]

\* the value a demographic widget returns: the value kept for its key if it
\* is still offered, else the first option (selectbox, radio) or the empty
\* string (text_input)
WidgetValue(widgets, attr) ==
    IF attr.input_type \in {"select", "radio"} /\ attr.options # <<>>
    THEN IF attr.name \in DictKeys(widgets)
            /\ DictGet(widgets, attr.name, "") \in Range(attr.options)
         THEN DictGet(widgets, attr.name, "")
         ELSE attr.options[1]
    ELSE DictGet(widgets, attr.name, "")

\* render_demographic_form, lines 115-123: the attributes of the form
FormAttributes(d, campaign_id) ==
    LET demographics == get_campaign_demographics(d, campaign_id)
    IN IF demographics = <<>>
       THEN get_demographic_attributes(d, TRUE)
       ELSE demographics

RECURSIVE FormData(_, _, _)
\* lines 125-157: demographic_data[attr['label']] = value
FormData(attrs, widgets, acc) ==
    IF attrs = <<>> THEN acc
    ELSE FormData(Tail(attrs), widgets,
                  DictSet(acc, Head(attrs).label,
                          WidgetValue(widgets, Head(attrs))))

render_demographic_form(d, campaign_id, widgets) ==
    FormData(FormAttributes(d, campaign_id), widgets, <<>>)

\* get_location_data on success: the six fields of the lookup
LocationFound ==
    << <<"city", "phangnga">>, <<"country", "thailand">>, <<"isp", "isp1">>,
       <<"lat", "8.45">>, <<"lon", "98.52">>, <<"region", "phangnga">> >>

(***************************************************************************)
(* The two lookups of the confirm button (voter_ui.py, lines 22-48).  What *)
(* requests.get does is an input: it raises (no connection, timeout), or   *)
(* it returns a response with a status code and a body; json is the body   *)
(* parsed as a JSON object, PyDictNone where response.json() raises.       *)
(***************************************************************************)
Raised == [raised |-> TRUE, status_code |-> 0, text |-> <<>>, json |-> NoneDict]

Reply(status_code, text, json) ==
    [raised |-> FALSE, status_code |-> status_code, text |-> text,
     json |-> json]

\* the lookup that is not made
NotCalled == Reply(0, <<>>, NoneDict)

\* a lookup that failed: an exception, a timeout or a non-success response
LookupFailed(reply) ==
    \/ reply.raised
    \/ reply.status_code \notin 200..299
    \/ ~reply.json.isnone /\ DictGet(reply.json.d, "status", "") = "fail"

\* the body of ip-api.com for an address it finds
LocationJson ==
    << <<"status", "success">>, <<"city", "phangnga">>,
       <<"country", "thailand">>, <<"isp", "isp1">>, <<"lat", "8.45">>,
       <<"lon", "98.52">>, <<"regionName", "phangnga">> >>

IpReplies ==
    { Raised, Reply(200, <<"10.0.0.1">>, NoneDict),
      Reply(503, <<"unavailable">>, NoneDict) }

\* what ip-api.com can answer after this answer of api.ipify.org
LocationReplies(ip_reply) ==
    IF ip_reply.raised THEN {NotCalled}
    ELSE IF ip_reply.status_code = 200
    THEN { Raised, Reply(200, <<"json">>, SomeDict(LocationJson)),
           Reply(200, <<"json">>, SomeDict(<< <<"status", "fail">> >>)) }
    ELSE { Reply(200, <<"json">>, SomeDict(<< <<"status", "fail">> >>)) }

\* the answers of the two services to one press of the confirm button
Lookups ==
    UNION {{[ip |-> i, loc |-> l] : l \in LocationReplies(i)} : i \in IpReplies}

\* return response.text, whatever the status code; None if requests raised
get_ip_address(reply) ==
    IF reply.raised THEN SqlNull ELSE SqlText(reply.text)

get_location_data(ip_address, reply) ==
    IF ~Truthy(ip_address) THEN NoneDict
    ELSE IF reply.raised \/ reply.json.isnone THEN NoneDict
    ELSE LET data == reply.json.d
         IN IF DictGet(data, "status", "null") = "success"
            THEN SomeDict(<< <<"city", DictGet(data, "city", "")>>,
                             <<"country", DictGet(data, "country", "")>>,
                             <<"isp", DictGet(data, "isp", "")>>,
                             <<"lat", DictGet(data, "lat", "null")>>,
                             <<"lon", DictGet(data, "lon", "null")>>,
                             <<"region", DictGet(data, "regionName", "")>> >>)
            ELSE NoneDict

(***************************************************************************)
(* State                                                                   *)
(***************************************************************************)
VARIABLES
    db,                 \* the store: one field per table, and seq
    voter,              \* per voter session: session state and page run
    admin,              \* per admin session: the create_question call
    admin_ops,          \* the number of admin handlers run so far
    presses,            \* the number of widgets voters have used so far
    last,               \* history: the last write to the store
    belonged,           \* history: the campaign of every question and of
                        \* every response ever made
    call,               \* the last read of the store and what it returned
    conn,               \* per connection: the call of a write function
                        \* that runs on it, statement by statement
    serial,             \* history: the store had every committed call run
                        \* alone, in the order of the commits
    now,                \* datetime.now(), in seconds
    login,              \* the admin session: admin_logged_in, login_time
    page                \* per browser session: st.query_params, and what
                        \* main() rendered in the last run

vars ==
    <<db, voter, admin, admin_ops, presses, last, belonged, call, conn,
      serial, now, login, page>>

\* what the steps of the sessions leave alone
tx_vars == <<conn, serial>>
login_vars == <<now, login, page>>

NoTrigger == [kind |-> "none", q |-> 0, o |-> 0]
OptionTrigger(q, o) == [kind |-> "option", q |-> q, o |-> o]
ConfirmTrigger == [kind |-> "confirm", q |-> 0, o |-> 0]

\* replies (history): what the two services answered
NoSubmit ==
    [answers |-> <<>>, ip_address |-> SqlNull, location_data |-> NoneDict,
     replies |-> [ip |-> NotCalled, loc |-> NotCalled]]

\* a browser session that has not opened the poll link yet
NewVoter ==
    [ pc |-> "new", poll |-> 0, trigger |-> NoTrigger,
      answers |-> <<>>,            \* st.session_state.answers
      voted |-> {},                \* the campaigns with a voted_<id> flag
      widgets |-> <<>>,            \* the demo_<name> widget values
      confirm_enabled |-> FALSE,   \* the confirm button as last rendered
      demographic_data |-> <<>>,   \* local of the run
      sub |-> NoSubmit,            \* locals of the run: arguments of submit
      made |-> <<>> ]              \* history: the campaigns of the calls of
                                   \* submit_response that returned

IdleAdmin == [pc |-> "idle", campaign_id |-> 0, display_order |-> 0]

\* a write: the function and the id it was given or made; for
\* delete_campaign the number of response_details rows the campaign had (n),
\* for submit_response its campaign (n), whether that campaign was in the
\* store, and the two maps passed
NoOp ==
    [op |-> "none", id |-> 0, n |-> 0, existed |-> TRUE, demo |-> <<>>,
     loc |-> NoneDict]
Op(name, id, n) ==
    [op |-> name, id |-> id, n |-> n, existed |-> TRUE, demo |-> <<>>,
     loc |-> NoneDict]

NoCall == [fn |-> "none", campaign_id |-> 0, field |-> "", out |-> <<>>]

\* the connections that can be open at the same time
Conns == {"k1", "k2"}

\* the arguments of a call of a write function; the fields a function does
\* not take keep these values
NoArgs ==
    [fn |-> "none", id |-> 0, question_type |-> "single",
     max_selections |-> 1, options |-> <<>>, demographic_data |-> <<>>,
     answers |-> <<>>]

\* the python locals that a statement assigns: display_order, question_id
\* (lastrowid in create_question), response_id (lastrowid)
NoLocals == [display_order |-> 0, question_id |-> 0, response_id |-> 0]

\* a connection before get_connection() has opened it.  todo: the
\* statements still to execute, done: the statements executed; intx: a
\* transaction is open (sqlite3 begins one before the first INSERT, UPDATE or
\* DELETE) and work is the store as this connection sees it; base
\* (history): the committed store when the call started, or as another
\* connection has committed it since.
ClosedConn ==
    [pc |-> "closed", args |-> NoArgs, todo |-> <<>>, done |-> <<>>,
     intx |-> FALSE, work |-> EmptyStore, local |-> NoLocals,
     base |-> EmptyStore, returned |-> 0]

\* the admin session before a login
LoggedOut == [admin_logged_in |-> FALSE, login_time |-> PyNone]

\* st.query_params: without "poll", or with the string given for it
NoQuery == [has_poll |-> FALSE, poll |-> <<>>]
Query(str) == [has_poll |-> TRUE, poll |-> str]

\* a browser session before its first run; runs (history) counts the runs
NoPage == [query |-> NoQuery, screen |-> "none", runs |-> 0]

\* no connection is open, nobody is logged in, no page was run
Quiet ==
    /\ conn = [k \in Conns |-> ClosedConn]
    /\ serial = db
    /\ now = 0
    /\ login = LoggedOut
    /\ page = [v \in Voters |-> NoPage]

WithinBounds(d) ==
    /\ d.seq.campaigns <= MaxCampaignId
    /\ d.seq.questions <= MaxQuestionId
    /\ d.seq.options <= MaxOptionId
    /\ d.seq.responses <= MaxResponseId

\* the history of ownership f, extended by the rows new in the table
Owners(f, rows) ==
    [i \in DOMAIN f \cup Ids(rows) |->
        IF i \in DOMAIN f THEN f[i]
        ELSE (CHOOSE x \in rows : x.id = i).campaign_id]

NoOwners == [question |-> <<>>, response |-> <<>>]

Track(b, d) ==
    [question |-> Owners(b.question, d.questions),
     response |-> Owners(b.response, d.responses)]

\* the number of response_details rows of the responses of campaign c
DetailsOf(d, c) ==
    LET rs == {r \in d.responses : r.campaign_id = c}
    IN Cardinality({x \in d.response_details : x.response_id \in Ids(rs)})

\* a transaction commits: the store becomes d
Commit(d, rec) ==
    /\ WithinBounds(d)
    /\ db' = d
    /\ last' = rec
    /\ belonged' = Track(belonged, d)

\* the store after the first start of the application
Init ==
    /\ db = init_db(EmptyStore)
    /\ voter = [v \in Voters |-> NewVoter]
    /\ admin = [a \in Admins |-> IdleAdmin]
    /\ admin_ops = 0
    /\ presses = 0
    /\ last = NoOp
    /\ belonged = Track(NoOwners, db)
    /\ call = NoCall
    /\ Quiet

(***************************************************************************)
(* Voter session                                                           *)
(***************************************************************************)
\* the browser opens ?poll=<c>: a new session, whose first run starts
VoterOpen(v, c) ==
    /\ voter[v].pc = "new"
    /\ voter' = [voter EXCEPT ![v].pc = "start", ![v].poll = c]
    /\ UNCHANGED <<tx_vars, login_vars, db, admin, admin_ops, presses, last, belonged,
                   call>>

(***************************************************************************)
(* int(str) of python, for a string given as the sequence of its           *)
(* characters: whitespace around is dropped, one sign may lead, and the    *)
(* rest is decimal digits, with single underscores between digits allowed; *)
(* anything else raises ValueError.                                        *)
(***************************************************************************)
DigitChars == <<"0", "1", "2", "3", "4", "5", "6", "7", "8", "9">>

IsDigit(ch) == \E i \in DOMAIN DigitChars : DigitChars[i] = ch

DigitValue(ch) == (CHOOSE i \in DOMAIN DigitChars : DigitChars[i] = ch) - 1

RECURSIVE Strip(_)
\* str.strip() for the space character
Strip(str) ==
    IF str # <<>> /\ Head(str) = " " THEN Strip(Tail(str))
    ELSE IF str # <<>> /\ str[Len(str)] = " "
    THEN Strip(SubSeq(str, 1, Len(str) - 1))
    ELSE str

RECURSIVE DecimalValue(_, _)
DecimalValue(body, acc) ==
    IF body = <<>> THEN acc
    ELSE IF Head(body) = "_" THEN DecimalValue(Tail(body), acc)
    ELSE DecimalValue(Tail(body), acc * 10 + DigitValue(Head(body)))

\* [ok, value]: ok is FALSE where int raises ValueError
int(str) ==
    LET t == Strip(str)
        signed == t # <<>> /\ Head(t) \in {"+", "-"}
        body == IF signed THEN Tail(t) ELSE t
        wellformed ==
            /\ body # <<>>
            /\ \A i \in DOMAIN body : IsDigit(body[i]) \/ body[i] = "_"
            /\ IsDigit(body[1]) /\ IsDigit(body[Len(body)])
            /\ \A i \in 1..(Len(body) - 1) :
                  ~(body[i] = "_" /\ body[i + 1] = "_")
    IN IF ~wellformed THEN [ok |-> FALSE, value |-> 0]
       ELSE [ok |-> TRUE,
             value |-> IF signed /\ Head(t) = "-"
                       THEN 0 - DecimalValue(body, 0)
                       ELSE DecimalValue(body, 0)]

\* main() without the test of campaign['is_active']
main_ignoring_active(d, query_params) ==
    IF ~query_params.has_poll THEN "admin"
    ELSE LET campaign_id == int(query_params.poll)
         IN IF ~campaign_id.ok THEN "invalid_id"
            ELSE IF get_campaign(d, campaign_id.value).ok
            THEN "voter" ELSE "no_active_poll"

\* main(), lines 36-52: what the run renders.  "voter": render_voter_app;
\* "no_active_poll" and "invalid_id": the two st.error messages; "admin":
\* render_admin_app
main(d, query_params) ==
    IF ~query_params.has_poll THEN "admin"
    ELSE LET campaign_id == int(query_params.poll)
             campaign == get_campaign(d, campaign_id.value)
         IN IF ~campaign_id.ok THEN "invalid_id"
            ELSE IF campaign.ok /\ campaign.row.is_active
            THEN "voter" ELSE "no_active_poll"

\* the buttons a user can press: an option card of a question of the poll,
\* or the confirm button if it was rendered enabled
ClickTriggers(v) ==
    {OptionTrigger(o.question_id, o.id) :
        o \in {x \in db.options :
                 \E q \in db.questions :
                    q.id = x.question_id /\ q.campaign_id = voter[v].poll}}
    \cup (IF voter[v].confirm_enabled THEN {ConfirmTrigger} ELSE {})

\* one page run of a voter session, from main() to the end of
\* render_voter_app or to the call of submit_response: the set of session
\* states it can end in.  d is the store after init_db; the reads of one
\* run (get_campaign twice, the demographics, get_questions) see it.
PageRun(d, s, trigger) ==
    LET campaign == get_campaign(d, s.poll)
        questions == get_questions(d, s.poll)
        loop == QuestionLoop(questions, s.answers, trigger)
        ended == [s EXCEPT !.trigger = NoTrigger]
    IN \* main, lines 44-48: absent or inactive
       IF ~(campaign.ok /\ campaign.row.is_active)
       THEN {[ended EXCEPT !.pc = "idle", !.confirm_enabled = FALSE]}
       \* lines 176-183: already voted
       ELSE IF s.poll \in s.voted
       THEN {[ended EXCEPT !.pc = "idle", !.confirm_enabled = FALSE]}
       \* lines 198-200: no questions
       ELSE IF questions = <<>>
       THEN {[ended EXCEPT !.pc = "idle", !.confirm_enabled = FALSE]}
       ELSE IF loop.outcome = "crash"
       THEN {[ended EXCEPT !.pc = "idle", !.answers = loop.answers,
                           !.confirm_enabled = FALSE]}
       ELSE IF loop.outcome = "rerun"
       THEN {[ended EXCEPT !.pc = "start", !.answers = loop.answers]}
       \* lines 267-286: the two lookups, the answers to submit
       ELSE IF trigger.kind = "confirm"
       THEN {[s EXCEPT
                !.pc = "submit", !.trigger = NoTrigger,
                !.answers = loop.answers,
                !.confirm_enabled = AllAnswered(questions, loop.answers),
                !.demographic_data =
                    render_demographic_form(d, s.poll, s.widgets),
                !.sub = [answers |-> FormatAnswers(questions, loop.answers),
                         ip_address |-> get_ip_address(x.ip),
                         location_data |->
                            get_location_data(get_ip_address(x.ip), x.loc),
                         replies |-> x]]
             : x \in Lookups}
       ELSE {[ended EXCEPT !.pc = "idle", !.answers = loop.answers,
                !.confirm_enabled = AllAnswered(questions, loop.answers)]}

\* a run of the script: init_db, then the page
Run(v, trigger) ==
    LET d == init_db(db)
    IN /\ Commit(d, IF d = db THEN last ELSE Op("init_db", 0, 0))
       /\ \E s \in PageRun(d, voter[v], trigger) :
             voter' = [voter EXCEPT ![v] = s]

\* the user presses a button: the script runs with the button set
VoterPress(v, trigger) ==
    /\ voter[v].pc = "idle"
    /\ presses < MaxPresses
    /\ presses' = presses + 1
    /\ Run(v, trigger)
    /\ UNCHANGED <<tx_vars, login_vars, admin, admin_ops, call>>

\* the first run of a session, and the run that st.rerun() starts
VoterRerun(v) ==
    /\ voter[v].pc = "start"
    /\ Run(v, NoTrigger)
    /\ UNCHANGED <<tx_vars, login_vars, admin, admin_ops, presses, call>>

\* the session state after submit_response, as in the mutant that forgets
\* the voted flag
SessionAfterSubmitNoFlag(s) ==
    [s EXCEPT !.pc = "start", !.trigger = NoTrigger,
              !.answers = <<>>,
              !.demographic_data = <<>>, !.sub = NoSubmit,
              !.made = Append(@, s.poll)]

\* lines 297-300: the voted flag, the answers, st.rerun()
SessionAfterSubmit(s) ==
    [s EXCEPT !.pc = "start", !.trigger = NoTrigger,
              !.voted = @ \cup {s.poll},
              !.answers = <<>>,
              !.demographic_data = <<>>, !.sub = NoSubmit,
              !.made = Append(@, s.poll)]

\* lines 289-302: submit_response commits and returns
VoterSubmit(v) ==
    /\ voter[v].pc = "submit"
    /\ Commit(submit_response(db, voter[v].poll, voter[v].demographic_data,
                              voter[v].sub.answers, voter[v].sub.ip_address,
                              voter[v].sub.location_data),
              [op |-> "submit_response", id |-> db.seq.responses + 1,
               n |-> voter[v].poll,
               existed |-> voter[v].poll \in Ids(db.campaigns),
               demo |-> voter[v].demographic_data,
               loc |-> voter[v].sub.location_data])
    /\ voter' = [voter EXCEPT ![v] = SessionAfterSubmit(@)]
    /\ UNCHANGED <<tx_vars, login_vars, admin, admin_ops, presses, call>>

\* lines 304-305: submit_response raises (the store is locked or cannot be
\* written); nothing is committed and the flag is not set
VoterSubmitFail(v) ==
    /\ voter[v].pc = "submit"
    /\ voter' = [voter EXCEPT
         ![v].pc = "idle", ![v].trigger = NoTrigger,
         ![v].demographic_data = <<>>, ![v].sub = NoSubmit]
    /\ UNCHANGED <<tx_vars, login_vars, db, admin, admin_ops, presses, last, belonged,
                   call>>

(***************************************************************************)
(* The runs of a session from the link it was opened with                  *)
(***************************************************************************)
\* the browser opens the application with the query string it was given
Launch(v, query_params) ==
    /\ voter[v].pc = "new"
    /\ voter' = [voter EXCEPT ![v].pc = "start"]
    /\ page' = [page EXCEPT ![v].query = query_params]
    /\ UNCHANGED <<tx_vars, now, login, db, admin, admin_ops, presses, last,
                   belonged, call>>

\* a run of the script: init_db, then main() routes on st.query_params
RoutedRun(v, trigger) ==
    LET d == init_db(db)
        screen == main(d, page[v].query)
        s == [voter[v] EXCEPT !.poll = int(page[v].query.poll).value]
    IN /\ Commit(d, IF d = db THEN last ELSE Op("init_db", 0, 0))
       /\ page' = [page EXCEPT ![v].screen = screen, ![v].runs = @ + 1]
       /\ IF screen = "voter"
          THEN \E after \in PageRun(d, s, trigger) :
                  voter' = [voter EXCEPT ![v] = after]
          ELSE voter' = [voter EXCEPT ![v].pc = "idle",
                                      ![v].trigger = NoTrigger,
                                      ![v].confirm_enabled = FALSE]

\* the first run of a session, and the run that st.rerun() starts
LaunchedRerun(v) ==
    /\ voter[v].pc = "start"
    /\ RoutedRun(v, NoTrigger)
    /\ UNCHANGED <<tx_vars, now, login, admin, admin_ops, presses, call>>

\* the user presses a button of the voter page
LaunchedPress(v, trigger) ==
    /\ voter[v].pc = "idle"
    /\ page[v].screen = "voter"
    /\ presses < MaxPresses
    /\ presses' = presses + 1
    /\ RoutedRun(v, trigger)
    /\ UNCHANGED <<tx_vars, now, login, admin, admin_ops, call>>

\* what one voter session can do
VoterNext(v) ==
    \/ \E c \in 1..MaxCampaignId : VoterOpen(v, c)
    \/ \E trigger \in ClickTriggers(v) : VoterPress(v, trigger)
    \/ VoterRerun(v)
    \/ VoterSubmit(v)
    \/ VoterSubmitFail(v)

(***************************************************************************)
(* Admin handlers (src/views/admin_ui.py).  Every page run starts with     *)
(* init_db; the handler of the pressed button then writes to the store.    *)
(***************************************************************************)
QuestionTypes == {"single", "multi"}

\* render_question_builder, lines 272-328: options_data, the text inputs
\* that were filled in, in the order of the form
FormOptions(n) == SubSeq(<<"a", "b", "c", "d", "e", "f">>, 1, n)
\* line 337: saving needs at least two options
FilledOptions == {FormOptions(n) : n \in 2..MaxNewOptions}

\* one more admin handler has run
AdminOp ==
    /\ admin_ops < MaxAdminOps
    /\ admin_ops' = admin_ops + 1

\* render_campaign_list, line 164
AdminCreateCampaign ==
    /\ Commit(create_campaign(init_db(db)), Op("create_campaign", 0, 0))
    /\ AdminOp
    /\ UNCHANGED <<tx_vars, login_vars, voter, admin, presses, call>>

\* render_campaign_list, line 131
AdminToggleCampaign(c) ==
    /\ c \in Ids(init_db(db).campaigns)
    /\ Commit(toggle_campaign_status(init_db(db), c),
              Op("toggle_campaign_status", c, 0))
    /\ AdminOp
    /\ UNCHANGED <<tx_vars, login_vars, voter, admin, presses, call>>

\* render_campaign_list, lines 143-150: the id is the one kept in
\* confirm_delete by an earlier run
AdminDeleteCampaign(c) ==
    /\ c \in 1..db.seq.campaigns
    /\ Commit(delete_campaign(init_db(db), c),
              Op("delete_campaign", c, DetailsOf(db, c)))
    /\ AdminOp
    /\ UNCHANGED <<tx_vars, login_vars, voter, admin, presses, call>>

\* render_question_builder, line 346, first half of create_question: the
\* campaign exists in this run; SELECT MAX(display_order)
AdminCreateQuestionRead(a, c) ==
    /\ admin[a].pc = "idle"
    /\ c \in Ids(init_db(db).campaigns)
    /\ LET d == init_db(db)
       IN /\ Commit(d, IF d = db THEN last ELSE Op("init_db", 0, 0))
          /\ admin' = [admin EXCEPT ![a] =
                [pc |-> "insert", campaign_id |-> c,
                 display_order |-> next_display_order(d, c)]]
    /\ AdminOp
    /\ UNCHANGED <<tx_vars, login_vars, voter, presses, call>>

\* second half of create_question: the INSERTs and the commit
AdminCreateQuestionWrite(a, question_type, max_selections, options) ==
    /\ admin[a].pc = "insert"
    /\ Commit(insert_question(db, admin[a].campaign_id, question_type,
                              max_selections, options,
                              admin[a].display_order),
              Op("create_question", db.seq.questions + 1, 0))
    /\ admin' = [admin EXCEPT ![a] = IdleAdmin]
    /\ UNCHANGED <<tx_vars, login_vars, voter, admin_ops, presses, call>>

\* the whole of create_question in one run, no other write in between
AdminCreateQuestion(c, question_type, max_selections, options) ==
    /\ c \in Ids(init_db(db).campaigns)
    /\ LET d == init_db(db)
       IN Commit(insert_question(d, c, question_type, max_selections,
                                 options, next_display_order(d, c)),
                 Op("create_question", d.seq.questions + 1, 0))
    /\ AdminOp
    /\ UNCHANGED <<tx_vars, login_vars, voter, admin, presses, call>>

\* render_question_builder, line 342: editing_q was found in this run
AdminUpdateQuestion(q, question_type, max_selections, options) ==
    /\ q \in Ids(init_db(db).questions)
    /\ Commit(update_question(init_db(db), q, question_type, max_selections,
                              options),
              Op("update_question", q, 0))
    /\ AdminOp
    /\ UNCHANGED <<tx_vars, login_vars, voter, admin, presses, call>>

\* render_question_builder, line 221
AdminDeleteQuestion(q) ==
    /\ q \in Ids(init_db(db).questions)
    /\ Commit(delete_question(init_db(db), q), Op("delete_question", q, 0))
    /\ AdminOp
    /\ UNCHANGED <<tx_vars, login_vars, voter, admin, presses, call>>

\* render_danger_zone, line 525
AdminResetResponses(c) ==
    /\ c \in Ids(init_db(db).campaigns)
    /\ Commit(reset_responses(init_db(db), c), Op("reset_responses", c, 0))
    /\ AdminOp
    /\ UNCHANGED <<tx_vars, login_vars, voter, admin, presses, call>>

\* render_demographics_manager, line 815
AdminToggleAttribute(attr_id) ==
    /\ attr_id \in Ids(init_db(db).demographic_attributes)
    /\ Commit(toggle_demographic_attribute(init_db(db), attr_id),
              Op("toggle_demographic_attribute", attr_id, 0))
    /\ AdminOp
    /\ UNCHANGED <<tx_vars, login_vars, voter, admin, presses, call>>

\* render_demographics_manager, line 828
AdminDeleteAttribute(attr_id) ==
    /\ attr_id \in Ids(init_db(db).demographic_attributes)
    /\ Commit(delete_demographic_attribute(init_db(db), attr_id),
              Op("delete_demographic_attribute", attr_id, 0))
    /\ AdminOp
    /\ UNCHANGED <<tx_vars, login_vars, voter, admin, presses, call>>

\* the ticked boxes of render_campaign_demographics, in the order of the
\* active attributes, lines 913-928
SelectedIds(all_attrs, ticked) ==
    SelectSeq([i \in DOMAIN all_attrs |-> all_attrs[i].id],
              LAMBDA id : id \in ticked)

\* render_campaign_demographics, lines 896-934: the boxes offered are the
\* active attributes
AdminSetCampaignDemographics(c, ticked) ==
    LET d == init_db(db)
        all_attrs == get_demographic_attributes(d, TRUE)
    IN /\ get_campaign(d, c).ok
       /\ all_attrs # <<>>
       /\ ticked \subseteq {all_attrs[i].id : i \in DOMAIN all_attrs}
       /\ Commit(set_campaign_demographics(d, c, SelectedIds(all_attrs, ticked)),
                 Op("set_campaign_demographics", c, Cardinality(ticked)))
       /\ AdminOp
       /\ UNCHANGED <<tx_vars, login_vars, voter, admin, presses, call>>

(***************************************************************************)
(* Specification Spec: one voter session and the admin handlers for        *)
(* campaigns and questions, one handler at a time                          *)
(***************************************************************************)
Next ==
    \/ VoterNext("v1")
    \/ AdminCreateCampaign
    \/ \E c \in 1..MaxCampaignId : AdminToggleCampaign(c)
    \/ \E c \in 1..MaxCampaignId : AdminDeleteCampaign(c)
    \/ \E c \in 1..MaxCampaignId, t \in QuestionTypes, m \in 1..MaxSel,
          options \in FilledOptions : AdminCreateQuestion(c, t, m, options)
    \/ \E q \in 1..MaxQuestionId, t \in QuestionTypes, m \in 1..MaxSel,
          options \in FilledOptions : AdminUpdateQuestion(q, t, m, options)
    \/ \E q \in 1..MaxQuestionId : AdminDeleteQuestion(q)
    \/ \E c \in 1..MaxCampaignId : AdminResetResponses(c)

Spec == Init /\ [][Next]_vars

(***************************************************************************)
(* Specification SpecLaunch: a session opened with any query string, while *)
(* the admin opens, closes and deletes campaigns                           *)
(***************************************************************************)
QueryChars == {"0", "1", "2", " ", "-", "x"}

MaxQueryLen == 2

QueryParams == {NoQuery} \cup {Query(str) : str \in SeqsUpTo(QueryChars, MaxQueryLen)}

NextLaunch ==
    \/ \E query_params \in QueryParams : Launch("v1", query_params)
    \/ LaunchedRerun("v1")
    \/ \E trigger \in ClickTriggers("v1") : LaunchedPress("v1", trigger)
    \/ VoterSubmit("v1")
    \/ VoterSubmitFail("v1")
    \/ AdminCreateCampaign
    \/ \E c \in 1..MaxCampaignId : AdminToggleCampaign(c)
    \/ \E c \in 1..MaxCampaignId : AdminDeleteCampaign(c)

SpecLaunch == Init /\ [][NextLaunch]_vars

(***************************************************************************)
(* Specification SpecVoters: the voter sessions side by side, while the    *)
(* admin edits questions and resets the responses                          *)
(***************************************************************************)
NextVoters ==
    \/ \E v \in Voters : VoterNext(v)
    \/ \E q \in 1..MaxQuestionId, t \in QuestionTypes, m \in 1..MaxSel,
          options \in FilledOptions : AdminUpdateQuestion(q, t, m, options)
    \/ \E c \in 1..MaxCampaignId : AdminResetResponses(c)

SpecVoters == Init /\ [][NextVoters]_vars

(***************************************************************************)
(* Specification SpecOverlap: the admin sessions add questions at the      *)
(* same time, the SELECT and the INSERTs of create_question being two      *)
(* steps                                                                   *)
(***************************************************************************)
NextOverlap ==
    \/ \E a \in Admins, c \in 1..MaxCampaignId : AdminCreateQuestionRead(a, c)
    \/ \E a \in Admins, t \in QuestionTypes, m \in 1..MaxSel,
          options \in FilledOptions : AdminCreateQuestionWrite(a, t, m, options)
    \/ \E q \in 1..MaxQuestionId, t \in QuestionTypes, m \in 1..MaxSel,
          options \in FilledOptions : AdminUpdateQuestion(q, t, m, options)
    \/ \E q \in 1..MaxQuestionId : AdminDeleteQuestion(q)

SpecOverlap == Init /\ [][NextOverlap]_vars

(***************************************************************************)
(* Specification SpecDemographics: one voter session while the admin       *)
(* toggles, deletes and assigns demographic attributes                     *)
(***************************************************************************)
\* the attributes the admin acts on
AttributeIds == 1..MaxAttributeId

NextDemographics ==
    \/ VoterNext("v1")
    \/ \E attr_id \in AttributeIds : AdminToggleAttribute(attr_id)
    \/ \E attr_id \in AttributeIds : AdminDeleteAttribute(attr_id)
    \/ \E c \in 1..MaxCampaignId, ticked \in SUBSET AttributeIds :
          AdminSetCampaignDemographics(c, ticked)

SpecDemographics == Init /\ [][NextDemographics]_vars

(***************************************************************************)
(* Specification SpecService: the functions of database.py called          *)
(* directly, on a store whose responses table also holds rows that         *)
(* submit_response did not write                                           *)
(***************************************************************************)
\* what the column demographic_data of a row can hold (TEXT, nullable): no
\* value, the empty text, a text that is no JSON, the text of a map
StoredTexts ==
    {SqlNull, SqlText(<<>>), SqlText(<<"{">>),
     SqlText(json_dumps(<< <<"gen", "genx">> >>))}

RECURSIVE WithStoredRows(_, _)
\* the store d with one more responses row of campaign 1 per text
WithStoredRows(d, texts) ==
    IF texts = <<>> THEN d
    ELSE WithStoredRows(
           [d EXCEPT
              !.responses = @ \cup
                 {[id |-> d.seq.responses + 1, campaign_id |-> 1,
                   demographic_data |-> Head(texts), ip_address |-> SqlNull,
                   location_data |-> Head(texts)]},
              !.seq.responses = @ + 1],
           Tail(texts))

\* the maps passed to submit_response
DemographicMaps ==
    { <<>>, << <<"gen", "genz">> >>,
      << <<"gen", "geny">>, <<"phet", "male">> >> }
LocationMaps == {NoneDict, SomeDict(<<>>), SomeDict(LocationFound)}
FieldLabels == {"gen", "phet", "amphoe"}

InitService ==
    /\ db \in {WithStoredRows(init_db(EmptyStore), texts) :
                 texts \in SeqsUpTo(StoredTexts, MaxStoredRows)}
    /\ voter = [v \in Voters |-> NewVoter]
    /\ admin = [a \in Admins |-> IdleAdmin]
    /\ admin_ops = 0
    /\ presses = 0
    /\ last = NoOp
    /\ belonged = Track(NoOwners, db)
    /\ call = NoCall
    /\ Quiet

\* a call of submit_response with no answers
ServiceSubmit(c, demographic_data, location_data) ==
    /\ Commit(submit_response(db, c, demographic_data, <<>>, SqlNull,
                              location_data),
              [op |-> "submit_response", id |-> db.seq.responses + 1,
               n |-> c, existed |-> c \in Ids(db.campaigns),
               demo |-> demographic_data, loc |-> location_data])
    /\ call' = NoCall
    /\ UNCHANGED <<tx_vars, login_vars, voter, admin, admin_ops, presses>>

\* render_voter_logs, line 437
ServiceLogs(c) ==
    /\ call.fn # "get_voter_logs"
    /\ call' = [fn |-> "get_voter_logs", campaign_id |-> c, field |-> "",
                out |-> get_voter_logs(db, c)]
    /\ UNCHANGED <<tx_vars, login_vars, db, voter, admin, admin_ops, presses, last,
                   belonged>>

\* render_results, line 426
ServiceBreakdown(c, field) ==
    /\ call' = [fn |-> "get_demographic_breakdown", campaign_id |-> c,
                field |-> field,
                out |-> get_demographic_breakdown(db, c, field)]
    /\ UNCHANGED <<tx_vars, login_vars, db, voter, admin, admin_ops, presses, last,
                   belonged>>

\* render_export, line 486
ServiceExport(c) ==
    /\ call.fn # "export_responses_data"
    /\ call' = [fn |-> "export_responses_data", campaign_id |-> c,
                field |-> "", out |-> export_responses_data(db, c)]
    /\ UNCHANGED <<tx_vars, login_vars, db, voter, admin, admin_ops, presses, last,
                   belonged>>

NextService ==
    \/ \E c \in 1..MaxCampaignId, demographic_data \in DemographicMaps,
          location_data \in LocationMaps :
          ServiceSubmit(c, demographic_data, location_data)
    \/ \E c \in 1..MaxCampaignId : ServiceLogs(c)
    \/ \E c \in 1..MaxCampaignId, field \in FieldLabels :
          ServiceBreakdown(c, field)
    \/ \E c \in 1..MaxCampaignId : ServiceExport(c)

SpecService == InitService /\ [][NextService]_vars

(***************************************************************************)
(* Specification SpecTally: get_vote_statistics on the store after every   *)
(* combination of numbers of votes for the options of the sample question  *)
(***************************************************************************)
RECURSIVE CastVotes(_, _, _)
\* the store after count more sessions have voted for option_id of the
\* sample question (campaign 1, question 1)
CastVotes(d, option_id, count) ==
    IF count = 0 THEN d
    ELSE CastVotes(
           submit_response(d, 1, render_demographic_form(d, 1, <<>>),
                           << <<1, PyList(<<option_id>>)>> >>, SqlNull,
                           NoneDict),
           option_id, count - 1)

RECURSIVE StoreWithVotes(_, _)
\* counts[i] votes for option i
StoreWithVotes(d, counts) ==
    IF counts = <<>> THEN d
    ELSE CastVotes(StoreWithVotes(d, SubSeq(counts, 1, Len(counts) - 1)),
                   Len(counts), counts[Len(counts)])

InitTally ==
    /\ db \in {StoreWithVotes(init_db(EmptyStore), counts) :
                 counts \in [1..DefaultOptionCount -> 0..MaxVotes]}
    /\ voter = [v \in Voters |-> NewVoter]
    /\ admin = [a \in Admins |-> IdleAdmin]
    /\ admin_ops = 0
    /\ presses = 0
    /\ last = NoOp
    /\ belonged = Track(NoOwners, db)
    /\ call = NoCall
    /\ Quiet

\* render_results, line 401: the statistics of campaign c
ViewStatistics(c) ==
    /\ call.fn = "none"
    /\ call' = [fn |-> "get_vote_statistics", campaign_id |-> c,
                field |-> "", out |-> get_vote_statistics(db, c)]
    /\ UNCHANGED <<tx_vars, login_vars, db, voter, admin, admin_ops, presses, last,
                   belonged>>

NextTally == \E c \in 1..MaxCampaignId : ViewStatistics(c)

SpecTally == InitTally /\ [][NextTally]_vars

(***************************************************************************)
(* The write functions of database.py, statement by statement.  Each runs  *)
(* on a connection of its own (get_connection); sqlite3 begins a           *)
(* transaction before the first INSERT, UPDATE or DELETE, which takes the  *)
(* write lock of the database file; conn.commit() makes the changes the    *)
(* store, and conn.close() without a commit drops them.                    *)
(***************************************************************************)
\* one c.execute(...): the statement, the id it is given, and for an INSERT
\* of an option or of a detail row the text or option id and the position
St(sql, id, text, option_id) ==
    [sql |-> sql, id |-> id, text |-> text, option_id |-> option_id]

\* the INSERTs of an option list
OptionInserts(options) ==
    [i \in DOMAIN options |-> St("insert_option", i - 1, options[i], 0)]

\* the INSERTs of the detail rows of an answers map
DetailInserts(answers) ==
    LET pairs == DetailPairs(answers)
    IN [i \in DOMAIN pairs |->
          St("insert_detail", pairs[i][1], "", pairs[i][2])]

\* the statements of a call, in the order of the source
Statements(a) ==
    CASE a.fn = "delete_campaign" ->
           << St("delete_details_of_campaign", a.id, "", 0),
              St("delete_responses", a.id, "", 0),
              St("delete_options_of_campaign", a.id, "", 0),
              St("delete_questions", a.id, "", 0),
              St("delete_campaign", a.id, "", 0) >>
      [] a.fn = "delete_question" ->
           << St("delete_details_of_question", a.id, "", 0),
              St("delete_options", a.id, "", 0),
              St("delete_question", a.id, "", 0) >>
      [] a.fn = "delete_demographic_attribute" ->
           << St("delete_links", a.id, "", 0),
              St("delete_demographic_options", a.id, "", 0),
              St("delete_attribute", a.id, "", 0) >>
      [] a.fn = "reset_responses" ->
           << St("delete_details_of_campaign", a.id, "", 0),
              St("delete_responses", a.id, "", 0) >>
      [] a.fn = "update_question" ->
           << St("update_question", a.id, "", 0),
              St("delete_options", a.id, "", 0) >>
           \o OptionInserts(a.options)
      [] a.fn = "create_question" ->
           << St("select_max_display_order", a.id, "", 0),
              St("insert_question", a.id, "", 0) >>
           \o OptionInserts(a.options)
      [] a.fn = "submit_response" ->
           << St("insert_response", a.id, "", 0) >>
           \o DetailInserts(a.answers)

\* a SELECT: it takes no write lock and begins no transaction
IsRead(st) == st.sql = "select_max_display_order"

\* the store w and the locals after statement st of call a has been
\* executed
Execute(w, local, a, st) ==
    LET rids == {r.id : r \in {x \in w.responses : x.campaign_id = st.id}}
        qids == {q.id : q \in {x \in w.questions : x.campaign_id = st.id}}
        same == [work |-> w, local |-> local]
    IN CASE st.sql = "delete_details_of_campaign" ->
              [same EXCEPT !.work.response_details =
                              {x \in @ : x.response_id \notin rids}]
         [] st.sql = "delete_responses" ->
              [same EXCEPT !.work.responses =
                              {x \in @ : x.campaign_id # st.id}]
         [] st.sql = "delete_options_of_campaign" ->
              [same EXCEPT !.work.options =
                              {x \in @ : x.question_id \notin qids}]
         [] st.sql = "delete_questions" ->
              [same EXCEPT !.work.questions =
                              {x \in @ : x.campaign_id # st.id}]
         [] st.sql = "delete_campaign" ->
              [same EXCEPT !.work.campaigns = {x \in @ : x.id # st.id}]
         [] st.sql = "delete_details_of_question" ->
              [same EXCEPT !.work.response_details =
                              {x \in @ : x.question_id # st.id}]
         [] st.sql = "delete_options" ->
              [same EXCEPT !.work.options =
                              {x \in @ : x.question_id # st.id}]
         [] st.sql = "delete_question" ->
              [same EXCEPT !.work.questions = {x \in @ : x.id # st.id}]
         [] st.sql = "delete_links" ->
              [same EXCEPT !.work.campaign_demographics =
                              {x \in @ : x.attribute_id # st.id}]
         [] st.sql = "delete_demographic_options" ->
              [same EXCEPT !.work.demographic_options =
                              {x \in @ : x.attribute_id # st.id}]
         [] st.sql = "delete_attribute" ->
              [same EXCEPT !.work.demographic_attributes =
                              {x \in @ : x.id # st.id}]
         [] st.sql = "update_question" ->
              [same EXCEPT !.work.questions =
                 {IF q.id = st.id
                  THEN [q EXCEPT !.question_type = a.question_type,
                                 !.max_selections = a.max_selections]
                  ELSE q : q \in @}]
         [] st.sql = "select_max_display_order" ->
              [same EXCEPT !.local.display_order =
                              next_display_order(w, st.id)]
         [] st.sql = "insert_question" ->
              [same EXCEPT
                 !.work.questions = @ \cup
                    {[id |-> w.seq.questions + 1, campaign_id |-> st.id,
                      question_type |-> a.question_type,
                      max_selections |-> a.max_selections,
                      display_order |-> local.display_order]},
                 !.work.seq.questions = @ + 1,
                 !.local.question_id = w.seq.questions + 1]
         [] st.sql = "insert_option" ->
              [same EXCEPT
                 !.work.options = @ \cup
                    {[id |-> w.seq.options + 1,
                      question_id |-> local.question_id,
                      option_text |-> st.text, display_order |-> st.id]},
                 !.work.seq.options = @ + 1]
         [] st.sql = "insert_response" ->
              [same EXCEPT
                 !.work.responses = @ \cup
                    {[id |-> w.seq.responses + 1, campaign_id |-> st.id,
                      demographic_data |->
                         SqlText(json_dumps(a.demographic_data)),
                      ip_address |-> SqlNull, location_data |-> SqlNull]},
                 !.work.seq.responses = @ + 1,
                 !.local.response_id = w.seq.responses + 1]
         [] st.sql = "insert_detail" ->
              [same EXCEPT
                 !.work.response_details = @ \cup
                    {[id |-> w.seq.response_details + 1,
                      response_id |-> local.response_id,
                      question_id |-> st.id, option_id |-> st.option_id]},
                 !.work.seq.response_details = @ + 1]

\* the store had call a run alone on store d; display_order is the value
\* its SELECT returned
RunAlone(d, a, local) ==
    CASE a.fn = "delete_campaign" -> delete_campaign(d, a.id)
      [] a.fn = "delete_question" -> delete_question(d, a.id)
      [] a.fn = "delete_demographic_attribute" ->
           delete_demographic_attribute(d, a.id)
      [] a.fn = "reset_responses" -> reset_responses(d, a.id)
      [] a.fn = "update_question" ->
           update_question(d, a.id, a.question_type, a.max_selections,
                           a.options)
      [] a.fn = "create_question" ->
           insert_question(d, a.id, a.question_type, a.max_selections,
                           a.options, local.display_order)
      [] a.fn = "submit_response" ->
           submit_response(d, a.id, a.demographic_data, a.answers, SqlNull,
                           NoneDict)

\* get_connection(): a write function is called and opens its connection
ConnOpen(k, a) ==
    /\ conn[k].pc = "closed"
    /\ conn' = [conn EXCEPT ![k] =
         [ClosedConn EXCEPT
            !.pc = "open", !.args = a, !.todo = Statements(a),
            !.local.question_id =
               IF a.fn = "update_question" THEN a.id ELSE 0,
            !.base = db]]
    /\ UNCHANGED <<db, voter, admin, admin_ops, presses, last, belonged,
                   call, serial, login_vars>>

\* a store without a write lock: every connection may write at any time
WriteLockIgnored(k) == TRUE

\* no other connection holds the write lock

WriteLockFree(k) == \A j \in Conns \ {k} : ~conn[j].intx

\* the next statement of the call executes: a SELECT reads the committed
\* store or this connection's transaction; an INSERT, UPDATE or DELETE
\* begins the transaction if there is none, which needs the write lock
ConnExecute(k) ==
    /\ conn[k].pc = "open"
    /\ conn[k].todo # <<>>
    /\ LET st == Head(conn[k].todo)
           r == Execute(IF conn[k].intx THEN conn[k].work ELSE db,
                        conn[k].local, conn[k].args, st)
       IN /\ IsRead(st) \/ conn[k].intx \/ WriteLockFree(k)
          /\ conn' = [conn EXCEPT
               ![k].todo = Tail(@),
               ![k].done = Append(@, st.sql),
               ![k].intx = @ \/ ~IsRead(st),
               ![k].work = IF conn[k].intx \/ ~IsRead(st) THEN r.work
                           ELSE EmptyStore,
               ![k].local = r.local]
    /\ UNCHANGED <<db, voter, admin, admin_ops, presses, last, belonged,
                   call, serial, login_vars>>

\* what conn.close() leaves of the store when the transaction has not been
\* committed, as in a connection that writes every statement through
CloseKeepingWork(d, work) == work

\* conn.close() in the finally of get_connection: the changes of the open
\* transaction are dropped
Close(d, work) == d

\* the connection after an exception: closed, no transaction, no lock
FailedConn(c) ==
    [c EXCEPT !.pc = "failed", !.intx = FALSE, !.work = EmptyStore]

\* the write lock is held by another connection for longer than the
\* timeout of sqlite3.connect: the statement raises OperationalError
\* (database is locked)
ConnBusy(k) ==
    /\ conn[k].pc = "open"
    /\ conn[k].todo # <<>>
    /\ ~IsRead(Head(conn[k].todo))
    /\ ~conn[k].intx
    /\ ~WriteLockFree(k)
    /\ conn' = [conn EXCEPT ![k] = FailedConn(@)]
    /\ UNCHANGED <<db, voter, admin, admin_ops, presses, last, belonged,
                   call, serial, login_vars>>

\* a statement or the commit raises (the file cannot be written, the disk is
\* full): the with block is left by the exception and the connection
\* closes
ConnError(k) ==
    /\ conn[k].pc = "open"
    /\ db' = IF conn[k].intx THEN Close(db, conn[k].work) ELSE db
    /\ conn' = [conn EXCEPT ![k] = FailedConn(@)]
    /\ UNCHANGED <<voter, admin, admin_ops, presses, last, belonged, call,
                   serial, login_vars>>

\* conn.commit(), the return and the close
ConnCommit(k) ==
    /\ conn[k].pc = "open"
    /\ conn[k].todo = <<>>
    /\ conn[k].intx
    /\ Commit(conn[k].work, Op(conn[k].args.fn, conn[k].args.id, 0))
    /\ serial' = RunAlone(serial, conn[k].args, conn[k].local)
    /\ conn' = [j \in Conns |->
         IF j = k
         THEN [conn[k] EXCEPT
                 !.pc = "done", !.intx = FALSE, !.work = EmptyStore,
                 !.returned =
                    IF conn[k].args.fn = "submit_response"
                    THEN conn[k].local.response_id
                    ELSE IF conn[k].args.fn = "create_question"
                    THEN conn[k].local.question_id ELSE 0]
         ELSE [conn[j] EXCEPT !.base = conn[k].work]]
    /\ UNCHANGED <<voter, admin, admin_ops, presses, call, login_vars>>

(***************************************************************************)
(* Specification SpecTx: two calls of write functions on a store in use    *)
(***************************************************************************)
\* a store with an assigned demographic attribute and a response
StoreInUse ==
    submit_response(
        set_campaign_demographics(init_db(EmptyStore), 1, <<1>>),
        1, <<>>, << <<1, PyList(<<1>>)>> >>, SqlNull, NoneDict)

WriteCalls ==
    { [NoArgs EXCEPT !.fn = "delete_campaign", !.id = 1],
      [NoArgs EXCEPT !.fn = "delete_question", !.id = 1],
      [NoArgs EXCEPT !.fn = "delete_demographic_attribute", !.id = 1],
      [NoArgs EXCEPT !.fn = "reset_responses", !.id = 1],
      [NoArgs EXCEPT !.fn = "update_question", !.id = 1,
                     !.question_type = "multi", !.max_selections = 2,
                     !.options = FormOptions(2)],
      [NoArgs EXCEPT !.fn = "create_question", !.id = 1,
                     !.options = FormOptions(2)],
      [NoArgs EXCEPT !.fn = "submit_response", !.id = 1,
                     !.answers = << <<1, PyList(<<1, 2>>)>> >>] }

InitTx ==
    /\ db = StoreInUse
    /\ voter = [v \in Voters |-> NewVoter]
    /\ admin = [a \in Admins |-> IdleAdmin]
    /\ admin_ops = 0
    /\ presses = 0
    /\ last = NoOp
    /\ belonged = Track(NoOwners, db)
    /\ call = NoCall
    /\ Quiet

NextTx ==
    \E k \in Conns :
       \/ \E a \in WriteCalls : ConnOpen(k, a)
       \/ ConnExecute(k)
       \/ ConnBusy(k)
       \/ ConnError(k)
       \/ ConnCommit(k)

SpecTx == InitTx /\ [][NextTx]_vars

(***************************************************************************)
(* Specification SpecSubmits: two voters' calls of submit_response at the  *)
(* same time                                                               *)
(***************************************************************************)
SubmitCalls ==
    { [NoArgs EXCEPT !.fn = "submit_response", !.id = c, !.answers = answers]
      : c \in 1..MaxCampaignId,
        answers \in { << <<1, PyList(<<1>>)>> >>,
                      << <<1, PyList(<<1, 2>>)>> >>,
                      << <<1, PyInt(2)>> >> } }

NextSubmits ==
    \E k \in Conns :
       \/ \E a \in SubmitCalls : ConnOpen(k, a)
       \/ ConnExecute(k)
       \/ ConnBusy(k)
       \/ ConnCommit(k)

SpecSubmits == Init /\ [][NextSubmits]_vars

(***************************************************************************)
(* Specification SpecEdit: update_question and                             *)
(* update_demographic_attribute called with option lists of every length   *)
(* and order, on a store that can have a second question                   *)
(***************************************************************************)
\* the option lists passed: empty, in both orders, with a text twice
EditLists == SeqsUpTo({"a", "b"}, 2) \cup {<<"b", "a", "b">>}

InputTypes == {"select", "radio", "text"}

\* update_question(q, text, question_type, max_selections, options)
CallUpdateQuestion(q, question_type, max_selections, options) ==
    /\ Commit(update_question(db, q, question_type, max_selections, options),
              Op("update_question", q, 0))
    /\ AdminOp
    /\ UNCHANGED <<tx_vars, login_vars, voter, admin, presses, call>>

\* update_demographic_attribute(attr_id, name, label, input_type, options)
CallUpdateAttribute(attr_id, input_type, options) ==
    /\ Commit(update_demographic_attribute(db, attr_id, "zone", "khet",
                                           input_type, options),
              Op("update_demographic_attribute", attr_id, 0))
    /\ AdminOp
    /\ UNCHANGED <<tx_vars, login_vars, voter, admin, presses, call>>

NextEdit ==
    \/ \E q \in 1..MaxQuestionId, t \in QuestionTypes, m \in 1..MaxSel,
          options \in EditLists : CallUpdateQuestion(q, t, m, options)
    \/ \E attr_id \in AttributeIds, input_type \in InputTypes,
          options \in EditLists :
          CallUpdateAttribute(attr_id, input_type, options)
    \/ \E c \in 1..MaxCampaignId, options \in FilledOptions :
          AdminCreateQuestion(c, "single", 1, options)

SpecEdit == Init /\ [][NextEdit]_vars

(***************************************************************************)
(* Specification SpecSubmit: submit_response called with every answers map *)
(* over two questions, a selection being one option id or a list           *)
(***************************************************************************)
\* the values of the answers map: an option id, or a list of option ids
\* that may be empty or name an option twice
Selections ==
    {PyInt(1), PyList(<<>>), PyList(<<1>>), PyList(<<1, 2>>),
     PyList(<<2, 2>>)}

\* the keys of the answers map: two question ids
AnswerKeys == {1, 2}

\* the dicts with keys among AnswerKeys, in both insertion orders
AnswerMaps ==
    {<<>>}
    \cup { << <<q, sel>> >> : q \in AnswerKeys, sel \in Selections }
    \cup { << <<q1, sel1>>, <<q2, sel2>> >> :
             q1 \in AnswerKeys, q2 \in AnswerKeys, sel1 \in Selections,
             sel2 \in {PyInt(2), PyList(<<1, 2>>)} }

\* submit_response(c, {}, answers) commits and returns the new id
SubmitAnswers(c, answers) ==
    /\ answers \in AnswerMaps
    /\ \A i, j \in DOMAIN answers : answers[i][1] = answers[j][1] => i = j
    /\ Commit(submit_response(db, c, <<>>, answers, SqlNull, NoneDict),
              [op |-> "submit_response", id |-> db.seq.responses + 1,
               n |-> c, existed |-> c \in Ids(db.campaigns),
               demo |-> <<>>, loc |-> NoneDict])
    /\ call' = [fn |-> "submit_response", campaign_id |-> c, field |-> "",
                out |-> <<db.seq.responses + 1, answers>>]
    /\ UNCHANGED <<tx_vars, login_vars, voter, admin, admin_ops, presses>>

NextSubmit ==
    \E c \in 1..MaxCampaignId, answers \in AnswerMaps :
       SubmitAnswers(c, answers)

SpecSubmit == Init /\ [][NextSubmit]_vars

(***************************************************************************)
(* Specification SpecFrame: every function that writes, called one at a    *)
(* time on a store in use                                                  *)
(***************************************************************************)
Urls == {"http://localhost:8501", "http://poll"}

\* render_voter_app, lines 267-286, with every question answered: the
\* answers are to the first question of the campaign, n of its options from
\* the one after the k-th
SubmitBallot(c, k, n) ==
    LET questions == get_questions(db, c)
        question == questions[1]
        answers == << <<question.id,
                        PyList([i \in 1..n |-> question.options[k + i].id])>> >>
    IN /\ get_campaign(db, c).ok
       /\ questions # <<>>
       /\ k + n <= Len(question.options)
       /\ Commit(submit_response(db, c, <<>>, answers, SqlNull, NoneDict),
                 [op |-> "submit_response", id |-> db.seq.responses + 1,
                  n |-> c, existed |-> TRUE, demo |-> <<>>,
                  loc |-> NoneDict])
       /\ UNCHANGED <<tx_vars, login_vars, voter, admin, admin_ops, presses,
                      call>>

Passwords == {"superpoll2025", "pw"}

ImagePaths == {"uploads/a.png", "uploads/b.png"}

\* render_demographics_management: the form with no attribute being edited
AdminCreateAttribute(input_type, options) ==
    /\ Commit(create_demographic_attribute(init_db(db), "zone", "khet",
                                           input_type, options),
              Op("create_demographic_attribute", 0, Len(options)))
    /\ AdminOp
    /\ UNCHANGED <<tx_vars, login_vars, voter, admin, presses, call>>

\* render_settings: the save button shows when the url differs
AdminSetServerUrl(new_url) ==
    LET d == init_db(db)
    IN /\ new_url # get_setting(d, "server_url", "http://localhost:8501")
       /\ Commit(set_setting(d, "server_url", new_url),
                 Op("set_setting", 0, 0))
       /\ AdminOp
       /\ UNCHANGED <<tx_vars, login_vars, voter, admin, presses, call>>

\* render_settings: a new password that differs from the current one
AdminSetPassword(new_password) ==
    LET d == init_db(db)
    IN /\ new_password # get_setting(d, "admin_password", "superpoll2025")
       /\ Commit(set_setting(d, "admin_password", new_password),
                 Op("set_setting", 0, 1))
       /\ AdminOp
       /\ UNCHANGED <<tx_vars, login_vars, voter, admin, presses, call>>

\* render_image_gallery: one uploaded file
AdminAddImage(file_path) ==
    /\ Commit(add_image(init_db(db), file_path), Op("add_image", 0, 0))
    /\ AdminOp
    /\ UNCHANGED <<tx_vars, login_vars, voter, admin, presses, call>>

\* render_image_gallery: the delete button of a listed image
AdminDeleteImage(image_id) ==
    LET d == init_db(db)
    IN /\ image_id \in Ids(d.images)
       /\ Commit(delete_image(d, image_id), Op("delete_image", image_id, 0))
       /\ AdminOp
       /\ UNCHANGED <<tx_vars, login_vars, voter, admin, presses, call>>

InitFrame ==
    /\ db = StoreInUse
    /\ voter = [v \in Voters |-> NewVoter]
    /\ admin = [a \in Admins |-> IdleAdmin]
    /\ admin_ops = 0
    /\ presses = 0
    /\ last = NoOp
    /\ belonged = Track(NoOwners, StoreInUse)
    /\ call = NoCall
    /\ Quiet

NextFrame ==
    \/ \E c \in 1..MaxCampaignId, k \in 0..1, n \in 1..MaxSel :
          SubmitBallot(c, k, n)
    \/ AdminCreateCampaign
    \/ \E c \in 1..MaxCampaignId : AdminToggleCampaign(c)
    \/ \E c \in 1..MaxCampaignId : AdminDeleteCampaign(c)
    \/ \E c \in 1..MaxCampaignId : AdminResetResponses(c)
    \/ \E c \in 1..MaxCampaignId, options \in FilledOptions :
          AdminCreateQuestion(c, "single", 1, options)
    \/ \E q \in 1..MaxQuestionId, options \in FilledOptions :
          CallUpdateQuestion(q, "multi", 2, options)
    \/ \E q \in 1..MaxQuestionId : AdminDeleteQuestion(q)
    \/ \E input_type \in InputTypes, options \in EditLists :
          AdminCreateAttribute(input_type, options)
    \/ \E attr_id \in AttributeIds, options \in EditLists :
          CallUpdateAttribute(attr_id, "radio", options)
    \/ \E attr_id \in AttributeIds : AdminToggleAttribute(attr_id)
    \/ \E attr_id \in AttributeIds : AdminDeleteAttribute(attr_id)
    \/ \E c \in 1..MaxCampaignId, ticked \in SUBSET AttributeIds :
          AdminSetCampaignDemographics(c, ticked)
    \/ \E new_url \in Urls : AdminSetServerUrl(new_url)
    \/ \E new_password \in Passwords : AdminSetPassword(new_password)
    \/ \E file_path \in ImagePaths : AdminAddImage(file_path)
    \/ \E image_id \in 1..MaxAdminOps : AdminDeleteImage(image_id)

SpecFrame == InitFrame /\ [][NextFrame]_vars

(***************************************************************************)
(* Specification SpecReset: two campaigns with a question each, the voters *)
(* of both, and the reset of the responses                                 *)
(***************************************************************************)
TwoCampaigns ==
    insert_question(create_campaign(init_db(EmptyStore)), 2, "multi", 2,
                    FormOptions(2), 1)

InitReset ==
    /\ db = TwoCampaigns
    /\ voter = [v \in Voters |-> NewVoter]
    /\ admin = [a \in Admins |-> IdleAdmin]
    /\ admin_ops = 0
    /\ presses = 0
    /\ last = NoOp
    /\ belonged = Track(NoOwners, TwoCampaigns)
    /\ call = NoCall
    /\ Quiet

NextReset ==
    \/ \E c \in 1..MaxCampaignId, k \in 0..1, n \in 1..MaxSel :
          SubmitBallot(c, k, n)
    \/ \E c \in 1..MaxCampaignId : AdminResetResponses(c)

SpecReset == InitReset /\ [][NextReset]_vars

(***************************************************************************)
(* The admin login (src/views/admin_ui.py, lines 49-88).  Time is          *)
(* datetime.now() in seconds; login_time is PyNone or PyInt(seconds).      *)
(***************************************************************************)
\* session timeout (1 day in seconds)
SESSION_TIMEOUT == 24 * 60 * 60

\* check_login that rejects a session of exactly SESSION_TIMEOUT seconds
check_login_inclusive(session, t) ==
    IF ~session.admin_logged_in THEN [ok |-> FALSE, session |-> session]
    ELSE IF /\ session.login_time.k = "int"
            /\ t - session.login_time.v[1] >= SESSION_TIMEOUT
    THEN [ok |-> FALSE, session |-> LoggedOut]
    ELSE [ok |-> TRUE, session |-> session]

\* check_login that looks at the flag only
check_login_without_timeout(session, t) ==
    [ok |-> session.admin_logged_in, session |-> session]

\* check_login at the time t: what it returns (ok) and st.session_state
\* as it leaves it
check_login(session, t) ==
    IF ~session.admin_logged_in THEN [ok |-> FALSE, session |-> session]
    ELSE IF /\ session.login_time.k = "int"
            /\ t - session.login_time.v[1] > SESSION_TIMEOUT
    THEN [ok |-> FALSE, session |-> LoggedOut]
    ELSE [ok |-> TRUE, session |-> session]

\* the instants at which the application runs
Instants ==
    {0, 1, SESSION_TIMEOUT - 1, SESSION_TIMEOUT, SESSION_TIMEOUT + 1,
     SESSION_TIMEOUT + 2, 2 * SESSION_TIMEOUT, 2 * SESSION_TIMEOUT + 1,
     2 * SESSION_TIMEOUT + 2}

\* time passes
Tick(t) ==
    /\ t > now
    /\ now' = t
    /\ UNCHANGED <<tx_vars, login, page, db, voter, admin, admin_ops, presses,
                   last, belonged, call>>

\* a run of the admin page: init_db, then render_admin_app calls
\* check_login; out is the time, what check_login returned and (history)
\* the session it was called with
AdminPageRun ==
    LET d == init_db(db)
        checked == check_login(login, now)
    IN /\ Commit(d, IF d = db THEN last ELSE Op("init_db", 0, 0))
       /\ login' = checked.session
       /\ call' = [fn |-> "check_login", campaign_id |-> 0, field |-> "",
                   out |-> <<now, checked.ok, login>>]
       /\ UNCHANGED <<tx_vars, now, page, voter, admin, admin_ops, presses>>

\* the login button of render_login, which a run renders when check_login
\* returned False, pressed with this password typed
AdminLogin(password) ==
    LET d == init_db(db)
        checked == check_login(login, now)
        accepted == password = get_setting(d, "admin_password", "superpoll2025")
    IN /\ ~checked.ok
       /\ Commit(d, IF d = db THEN last ELSE Op("init_db", 0, 0))
       /\ login' = IF accepted
                   THEN [admin_logged_in |-> TRUE, login_time |-> PyInt(now)]
                   ELSE checked.session
       /\ call' = [fn |-> "render_login", campaign_id |-> 0, field |-> "",
                   out |-> <<now, accepted>>]
       /\ UNCHANGED <<tx_vars, now, page, voter, admin, admin_ops, presses>>

\* the logout button of the sidebar, which a run renders when check_login
\* returned True
AdminLogout ==
    /\ check_login(login, now).ok
    /\ Commit(init_db(db), IF init_db(db) = db THEN last ELSE Op("init_db", 0, 0))
    /\ login' = LoggedOut
    /\ call' = [fn |-> "logout", campaign_id |-> 0, field |-> "",
                out |-> <<now, TRUE>>]
    /\ UNCHANGED <<tx_vars, now, page, voter, admin, admin_ops, presses>>

\* render_settings behind the login: the password is changed
AdminChangePassword(new_password) ==
    /\ check_login(login, now).ok
    /\ AdminSetPassword(new_password)

(***************************************************************************)
(* Specification SpecLogin: one admin session as time passes               *)
(***************************************************************************)
NextLogin ==
    \/ \E t \in Instants : Tick(t)
    \/ AdminPageRun
    \/ \E password \in Passwords : AdminLogin(password)
    \/ AdminLogout
    \/ \E new_password \in Passwords : AdminChangePassword(new_password)

SpecLogin == Init /\ [][NextLogin]_vars

(***************************************************************************)
(* Specification SpecLookup: the lookups by id and by key, between writes  *)
(* that add and delete the rows looked up                                  *)
(***************************************************************************)
LookupIds == 0..3

SettingKeys == {"server_url", "admin_password", "theme"}

\* the function called with an id, and what it returns
LookupById(fn, id) ==
    /\ call' = [fn |-> fn, campaign_id |-> id, field |-> "",
                out |-> CASE fn = "get_campaign" -> get_campaign(db, id)
                          [] fn = "get_question" -> get_question(db, id)
                          [] fn = "get_demographic_attribute" ->
                                get_demographic_attribute(db, id)
                          [] fn = "get_image" -> get_image(db, id)]
    /\ UNCHANGED <<tx_vars, login_vars, db, voter, admin, admin_ops, presses,
                   last, belonged>>

\* get_setting(key, default)
LookupSetting(key, default) ==
    /\ call' = [fn |-> "get_setting", campaign_id |-> 0, field |-> key,
                out |-> <<default, get_setting(db, key, default)>>]
    /\ UNCHANGED <<tx_vars, login_vars, db, voter, admin, admin_ops, presses,
                   last, belonged>>

LookupFunctions ==
    {"get_campaign", "get_question", "get_demographic_attribute", "get_image"}

NextLookup ==
    \/ \E fn \in LookupFunctions, id \in LookupIds : LookupById(fn, id)
    \/ \E key \in SettingKeys, default \in Urls : LookupSetting(key, default)
    \/ \E c \in 1..MaxCampaignId : AdminDeleteCampaign(c)
    \/ \E q \in 1..MaxQuestionId : AdminDeleteQuestion(q)
    \/ \E attr_id \in AttributeIds : AdminDeleteAttribute(attr_id)
    \/ \E file_path \in ImagePaths : AdminAddImage(file_path)
    \/ \E image_id \in 1..MaxAdminOps : AdminDeleteImage(image_id)
    \/ \E new_url \in Urls : AdminSetServerUrl(new_url)

SpecLookup == InitFrame /\ [][NextLookup]_vars

(***************************************************************************)
(* Specification SpecRead: get_campaign and get_questions called again and *)
(* again, between writes                                                   *)
(***************************************************************************)
MaxReads == 3

\* a read function that runs init_db before its SELECT
StoreAfterInitAndSelect(d) == init_db(d)

\* the store after a function that runs SELECT statements only and closes
\* its connection
StoreAfterSelect(d) == d

\* the number of reads made so far (history), kept with the last result
ReadsMade == IF call.fn \in {"get_campaign", "get_questions"}
             THEN call.out[3] ELSE 0

\* get_campaign(id) or get_questions(id); out is what the call returned,
\* and (history) the store it read and the number of the read
ReadById(fn, id) ==
    /\ ReadsMade < MaxReads
    /\ call' = [fn |-> fn, campaign_id |-> id, field |-> "",
                out |-> << IF fn = "get_campaign" THEN get_campaign(db, id)
                           ELSE get_questions(db, id),
                           db, ReadsMade + 1 >>]
    /\ db' = StoreAfterSelect(db)
    /\ UNCHANGED <<tx_vars, login_vars, voter, admin, admin_ops, presses,
                   last, belonged>>

NextRead ==
    \/ \E fn \in {"get_campaign", "get_questions"}, id \in LookupIds :
          ReadById(fn, id)
    \/ \E c \in 1..MaxCampaignId : AdminToggleCampaign(c)
    \/ \E c \in 1..MaxCampaignId : AdminDeleteCampaign(c)
    \/ \E c \in 1..MaxCampaignId, options \in FilledOptions :
          AdminCreateQuestion(c, "single", 1, options)
    \/ \E q \in 1..MaxQuestionId, options \in FilledOptions :
          CallUpdateQuestion(q, "multi", 2, options)
    \/ \E q \in 1..MaxQuestionId : AdminDeleteQuestion(q)

SpecRead == InitFrame /\ [][NextRead]_vars


(***************************************************************************)
(* Properties                                                              *)
(***************************************************************************)
\* the questions that belonged to campaign c, the responses likewise
QuestionsOnceOf(c) ==
    {q \in DOMAIN belonged.question : belonged.question[q] = c}
ResponsesOnceOf(c) ==
    {r \in DOMAIN belonged.response : belonged.response[r] = c}

\* C1: when delete_campaign(c) has committed, the store holds no responses
\* row and no questions row with campaign_id = c, no options row whose
\* question belonged to c, and no response_details row whose response or
\* whose question belonged to c
C1_DeleteCampaignLeavesNoRows ==
    last.op = "delete_campaign" =>
       /\ \A r \in db.responses : r.campaign_id # last.id
       /\ \A q \in db.questions : q.campaign_id # last.id
       /\ \A o \in db.options : o.question_id \notin QuestionsOnceOf(last.id)
       /\ \A x \in db.response_details :
             /\ x.response_id \notin ResponsesOnceOf(last.id)
             /\ x.question_id \notin QuestionsOnceOf(last.id)

\* delete_campaign has just removed a campaign that had a question and
\* responses with response_details rows
C1_Witness ==
    /\ last.op = "delete_campaign"
    /\ last.n > 0
    /\ QuestionsOnceOf(last.id) # {}
    /\ ResponsesOnceOf(last.id) # {}

\* the number of response_details rows of response r for question q
DetailCount(r, q) ==
    Cardinality({x \in db.response_details :
                   x.response_id = r /\ x.question_id = q})

\* C2: in every reachable state every response holds at most one
\* response_details row for each question whose current type is single and
\* at most max_selections rows for each question whose current type is multi
C2_DetailsWithinCurrentType ==
    \A r \in db.responses, q \in db.questions :
       DetailCount(r.id, q.id) <=
          IF q.question_type = "single" THEN 1 ELSE q.max_selections

\* C3: every responses row that the voter path inserts references a
\* campaign that is in the store when the row is inserted
C3_SubmitToExistingCampaign ==
    last.op = "submit_response" => last.existed

\* C4: a session has at most one returned submit_response call per
\* campaign; the voted flag of a campaign is set exactly when such a call
\* has returned (so not after a call that raised), and no run of the
\* session reaches submit_response for a campaign it has voted in
C4_OneResponsePerSession ==
    \A v \in Voters :
       /\ \A i, j \in DOMAIN voter[v].made :
             voter[v].made[i] = voter[v].made[j] => i = j
       /\ voter[v].voted = Range(voter[v].made)
       /\ voter[v].pc = "submit" => voter[v].poll \notin Range(voter[v].made)

\* a session has voted, its page has run again since, and the user has
\* pressed a button after that
C4_Witness ==
    /\ presses = MaxPresses
    /\ \E v \in Voters :
          /\ voter[v].made # <<>>
          /\ voter[v].pc = "idle"
          /\ \A w \in Voters \ {v} : voter[w].pc = "new"

\* C7: for every question of a campaign get_vote_statistics lists every
\* option of the question exactly once, in display order, with vote_count
\* the number of response_details rows with that option_id; an option
\* without such rows has vote_count 0 and percentage 0; total_votes is the
\* number of response_details rows of the options of the question
C7_StatisticsCountDetails ==
    \A c \in Ids(db.campaigns) :
       LET stats == get_vote_statistics(db, c)
       IN /\ Len(stats) = Cardinality({q \in db.questions : q.campaign_id = c})
          /\ {stats[i].id : i \in DOMAIN stats} =
                {q.id : q \in {x \in db.questions : x.campaign_id = c}}
          /\ \A i \in DOMAIN stats :
                LET opts == stats[i].options
                    rows == {o \in db.options : o.question_id = stats[i].id}
                    votes(S) == Cardinality({x \in db.response_details :
                                               x.option_id \in S})
                IN /\ Len(opts) = Cardinality(rows)
                   /\ {opts[k].id : k \in DOMAIN opts} = Ids(rows)
                   /\ \A k, l \in DOMAIN opts :
                         k < l => opts[k].display_order <= opts[l].display_order
                   /\ \A k \in DOMAIN opts :
                         /\ opts[k].vote_count = votes({opts[k].id})
                         /\ opts[k].vote_count = 0 =>
                               opts[k].percentage = DblZero
                   /\ stats[i].total_votes = votes(Ids(rows))

\* the statistics of a question show an option with 0 votes and 0 percent
\* and an option with 2 votes and 100 percent, total_votes 2
C7_Witness ==
    \E c \in Ids(db.campaigns) :
       LET stats == get_vote_statistics(db, c)
       IN \E i \in DOMAIN stats :
             /\ stats[i].total_votes = 2
             /\ \E k, l \in DOMAIN stats[i].options :
                   /\ stats[i].options[k].vote_count = 0
                   /\ stats[i].options[k].percentage = DblZero
                   /\ stats[i].options[l].vote_count = 2
                   /\ SumIs(<<stats[i].options[l].percentage>>, 100)

\* what the intake form of campaign c shows, what is assigned to c, what
\* is active
FormIds(c) ==
    {FormAttributes(db, c)[i].id : i \in DOMAIN FormAttributes(db, c)}
AssignedIds(c) == get_campaign_demographic_ids(db, c)
ActiveIds == {a.id : a \in {x \in db.demographic_attributes : x.is_active}}

\* C5: for every campaign the attributes of its intake form are exactly
\* the attributes assigned to it in campaign_demographics when at least one
\* row is assigned, whatever toggle_demographic_attribute has done since,
\* and are all the active attributes when no row is assigned
C5_FormIsAssignedElseActive ==
    \A c \in Ids(db.campaigns) :
       IF AssignedIds(c) # {}
       THEN FormIds(c) = AssignedIds(c)
       ELSE FormIds(c) = ActiveIds

\* C6: in every reachable state the display_order values of the questions
\* of one campaign are pairwise distinct
C6_DisplayOrderUnique ==
    \A q1, q2 \in db.questions :
       (q1.campaign_id = q2.campaign_id /\ q1.display_order = q2.display_order)
          => q1.id = q2.id

\* the percentages of the options of one question of the statistics
Percentages(q) == [k \in DOMAIN q.options |-> q.options[k].percentage]

\* C8 as stated: for every question of get_vote_statistics the percentages
\* add up to 100 when total_votes > 0, and each is 0 when total_votes = 0
C8_PercentagesSumTo100 ==
    call.fn = "get_vote_statistics" =>
       \A i \in DOMAIN call.out :
          IF call.out[i].total_votes > 0
          THEN SumIs(Percentages(call.out[i]), 100)
          ELSE \A k \in DOMAIN call.out[i].options :
                  call.out[i].options[k].percentage = DblZero

\* C8 as amended: for every question of get_vote_statistics the
\* percentages add up to 100 within 2^-30 (the rounding of the floating
\* point division and multiplication) when total_votes > 0, and each is
\* exactly 0 when total_votes = 0
C8_PercentagesSumNear100 ==
    call.fn = "get_vote_statistics" =>
       \A i \in DOMAIN call.out :
          IF call.out[i].total_votes > 0
          THEN SumNear(Percentages(call.out[i]), 100, 30)
          ELSE \A k \in DOMAIN call.out[i].options :
                  call.out[i].options[k].percentage = DblZero

\* the statistics of a question with 3 votes, 1 and 2 of them for two
\* options, whose percentages do not add up to exactly 100
C8_Witness ==
    /\ call.fn = "get_vote_statistics"
    /\ \E i \in DOMAIN call.out :
          /\ call.out[i].total_votes = 3
          /\ \E k \in DOMAIN call.out[i].options :
                call.out[i].options[k].vote_count = 2
          /\ ~SumIs(Percentages(call.out[i]), 100)

\* the responses rows of campaign c whose demographic map lacks the field,
\* or that hold no map at all
Unspecified(c, field) ==
    {r \in {x \in db.responses : x.campaign_id = c} :
        \/ ~Truthy(r.demographic_data)
        \/ ~json_loads(r.demographic_data.txt).ok
        \/ field \notin DictKeys(json_loads(r.demographic_data.txt).d)}

\* C9: the counts of get_demographic_breakdown add up to its total, the
\* total is the number of responses rows of the campaign
\* (get_response_count), and the responses whose map lacks the field or
\* does not decode are the ones counted under the placeholder
C9_BreakdownSumsToResponseCount ==
    call.fn = "get_demographic_breakdown" =>
       LET data == call.out.data
           unspecified == Unspecified(call.campaign_id, call.field)
           placeholder == {i \in DOMAIN data : data[i].value = NotSpecified}
       IN /\ SumSeq([i \in DOMAIN data |-> data[i].count]) = call.out.total
          /\ call.out.total = get_response_count(db, call.campaign_id)
          /\ \A i, j \in DOMAIN data : data[i].value = data[j].value => i = j
          /\ IF unspecified = {} THEN placeholder = {}
             ELSE \E i \in placeholder :
                     data[i].count = Cardinality(unspecified)

\* a breakdown of two responses, one of them a row that does not decode
\* and is counted under the placeholder, the other counted under its value
C9_Witness ==
    /\ call.fn = "get_demographic_breakdown"
    /\ call.out.total = 2
    /\ Len(call.out.data) = 2
    /\ \E r \in db.responses :
          /\ r.campaign_id = call.campaign_id
          /\ Truthy(r.demographic_data)
          /\ ~json_loads(r.demographic_data.txt).ok

\* get_voter_logs has been called for the campaign of the last
\* submit_response
LogsAfterSubmit ==
    /\ call.fn = "get_voter_logs"
    /\ last.op = "submit_response"
    /\ call.campaign_id = last.n

\* C10 as stated: get_voter_logs after submit_response returns an entry
\* for the new response whose demographic_data equals the map passed and
\* whose location_data equals the location passed, None included
C10_LogsReturnMapsPassed ==
    LogsAfterSubmit =>
       \E log \in call.out :
          /\ log.id = last.id
          /\ DictEq(log.demographic_data, last.demo)
          /\ ~last.loc.isnone
          /\ DictEq(log.location_data, last.loc.d)

\* C10 as amended: the entry's demographic_data equals the map passed, and
\* its location_data equals the location passed, except that for an absent
\* (None) location it is the empty map
C10_LogsReturnMapsOrEmpty ==
    LogsAfterSubmit =>
       \E log \in call.out :
          /\ log.id = last.id
          /\ DictEq(log.demographic_data, last.demo)
          /\ DictEq(log.location_data,
                    IF last.loc.isnone THEN <<>> ELSE last.loc.d)

\* the logs after a submit_response with the empty demographic map and no
\* location
C10_Witness ==
    /\ LogsAfterSubmit
    /\ last.demo = <<>>
    /\ last.loc.isnone
    /\ \E log \in call.out : log.id = last.id

(***************************************************************************)
(* C11                                                                     *)
(***************************************************************************)
\* the number of rows a selection stands for: one for an option id, one
\* per listed id for a list
RowsFor(sel) == IF sel.k = "list" THEN Len(sel.v) ELSE 1

\* how often option id o is selected by sel
TimesSelected(sel, o) ==
    IF sel.k = "list" THEN Cardinality({i \in DOMAIN sel.v : sel.v[i] = o})
    ELSE IF sel.v[1] = o THEN 1 ELSE 0

\* what a step of submit_response(c, ..., answers) has inserted
SubmitInserted(c, answers) ==
    LET new_responses == db'.responses \ db.responses
        new_details == db'.response_details \ db.response_details
        returned == call'.out[1]
    IN /\ db.responses \subseteq db'.responses
       /\ db.response_details \subseteq db'.response_details
       /\ Cardinality(new_responses) = 1
       /\ \A r \in new_responses : r.id = returned /\ r.campaign_id = c
       /\ returned \notin Ids(db.responses)
       /\ \A x \in new_details :
             /\ x.response_id = returned
             /\ \E i \in DOMAIN answers : x.question_id = answers[i][1]
             /\ x.id \notin Ids(db.response_details)
       /\ \A i \in DOMAIN answers :
             /\ Cardinality({x \in new_details :
                                x.question_id = answers[i][1]})
                   = RowsFor(answers[i][2])
             /\ \A o \in 1..MaxOptionId :
                   Cardinality({x \in new_details :
                                  /\ x.question_id = answers[i][1]
                                  /\ x.option_id = o})
                     = TimesSelected(answers[i][2], o)

\* C11: submit_response inserts exactly one responses row, and for each
\* (question_id, selection) pair of the answers map one response_details
\* row for an option id and one row per listed id for a list (none for an
\* empty list); every inserted detail row carries the new response's id and
\* the pair's question_id, and the returned id is the new response's id.
C11_SubmitInsertsOneRowPerSelection ==
    [][\A c \in 1..MaxCampaignId, answers \in AnswerMaps :
          SubmitAnswers(c, answers) => SubmitInserted(c, answers)]_vars

\* a call whose map held an option id for one question and a list of two
\* ids for the other has returned, and its three rows are in the store
C11_Witness ==
    /\ call.fn = "submit_response"
    /\ call.out[2] = << <<2, PyInt(1)>>, <<1, PyList(<<1, 2>>)>> >>
    /\ Cardinality({x \in db.response_details :
                       x.response_id = call.out[1]}) = 3
    /\ Cardinality(db.responses) = MaxResponseId

(***************************************************************************)
(* C12                                                                     *)
(***************************************************************************)
\* C12: every write operation is all-or-nothing.  When a statement of
\* create_question, update_question, submit_response, delete_campaign,
\* delete_question or reset_responses (or its commit) has failed, the
\* connection is closed with no transaction left open and the store is as it
\* was before the call started (base: with what other connections have
\* committed meanwhile); and the store never shows part of a call: it is
\* always the store that the committed calls, each run whole, produce.
C12_FailedWriteChangesNothing ==
    /\ \A k \in Conns :
          conn[k].pc = "failed" =>
             /\ ~conn[k].intx
             /\ db = conn[k].base
    /\ db = serial

\* submit_response has failed after its responses row and the first of its
\* two detail rows were inserted, while another call was committed
C12_Witness ==
    \E k \in Conns, j \in Conns :
       /\ conn[k].pc = "failed"
       /\ conn[k].args.fn = "submit_response"
       /\ conn[k].done = <<"insert_response", "insert_detail">>
       /\ conn[j].pc = "done"
       /\ conn[j].args.fn = "update_question"

(***************************************************************************)
(* C13                                                                     *)
(***************************************************************************)
\* the rows of the call on connection k are in the store: its responses row
\* under the id the call returned, and under that id exactly the detail
\* rows of its answers map
OwnRowsPersisted(k) ==
    LET pairs == DetailPairs(conn[k].args.answers)
        mine == {x \in db.response_details :
                   x.response_id = conn[k].returned}
    IN /\ \E r \in db.responses :
             r.id = conn[k].returned /\ r.campaign_id = conn[k].args.id
       /\ Cardinality(mine) = Len(pairs)
       /\ \A x \in mine :
             Cardinality({y \in mine : /\ y.question_id = x.question_id
                                        /\ y.option_id = x.option_id})
               = Cardinality({i \in DOMAIN pairs :
                                pairs[i] = <<x.question_id, x.option_id>>})
       /\ \A i \in DOMAIN pairs :
             \E x \in mine : pairs[i] = <<x.question_id, x.option_id>>

\* the store after the calls that have ended in the given way were run one
\* after another, first then second, on the store they started from
SubmitAlone(d, k, ended) ==
    IF conn[k].pc \in ended
    THEN submit_response(d, conn[k].args.id, conn[k].args.demographic_data,
                         conn[k].args.answers, SqlNull, NoneDict)
    ELSE d

OneAfterAnother(first, second, ended) ==
    SubmitAlone(SubmitAlone(init_db(EmptyStore), first, ended), second, ended)

\* the counts and the statistics are those of store d
SameTallies(d) ==
    \A c \in 1..MaxCampaignId :
       /\ get_response_count(db, c) = get_response_count(d, c)
       /\ get_vote_statistics(db, c) = get_vote_statistics(d, c)

\* C13 as stated: for any interleaving of submit_response calls of
\* independent voters, every call persists its own responses row with a
\* distinct id, each detail row is attached to the response of the call
\* that supplied it, and get_response_count and get_vote_statistics are
\* those of the same submissions run one after another.
C13_EverySubmitPersists ==
    (\A k \in Conns : conn[k].pc \in {"done", "failed"}) =>
       /\ \A k \in Conns : OwnRowsPersisted(k)
       /\ \A k, j \in Conns : k # j => conn[k].returned # conn[j].returned
       /\ \A k, j \in Conns :
             k # j => SameTallies(OneAfterAnother(k, j, {"done", "failed"}))

\* C13, amended: every call that returns has persisted its own responses
\* row with a distinct id and its own detail rows; a call that raised
\* because the store stayed locked has persisted nothing; and the counts
\* and the statistics are those of the returned calls run one after
\* another, in either order.
C13_ReturnedSubmitsPersist ==
    /\ \A k \in Conns : conn[k].pc = "done" => OwnRowsPersisted(k)
    /\ \A k, j \in Conns :
          (k # j /\ conn[k].pc = "done" /\ conn[j].pc = "done")
             => conn[k].returned # conn[j].returned
    /\ Cardinality(db.responses)
          = Cardinality({k \in Conns : conn[k].pc = "done"})
    /\ \A k, j \in Conns :
          k # j => SameTallies(OneAfterAnother(k, j, {"done"}))
    /\ SameTallies(serial)

\* two calls for campaign 1 have both returned, one with a list of two
\* options and one with a single option id
C13_Witness ==
    /\ \A k \in Conns : conn[k].pc = "done" /\ conn[k].args.id = 1
    /\ conn["k1"].args.answers = << <<1, PyList(<<1, 2>>)>> >>
    /\ conn["k2"].args.answers = << <<1, PyInt(2)>> >>
    /\ conn["k1"].returned = 2
    /\ conn["k2"].returned = 1

(***************************************************************************)
(* C14                                                                     *)
(***************************************************************************)
\* the references of store w whose parent row is not in w, as
\* <<child table, child row, parent table>>; the references are the FOREIGN
\* KEY clauses of the schema
Dangling(w) ==
    {<<"response_details", x, "responses">> :
        x \in {y \in w.response_details :
                 y.response_id \notin Ids(w.responses)}}
    \cup {<<"response_details", x, "questions">> :
        x \in {y \in w.response_details :
                 y.question_id \notin Ids(w.questions)}}
    \cup {<<"response_details", x, "options">> :
        x \in {y \in w.response_details :
                 y.option_id \notin Ids(w.options)}}
    \cup {<<"responses", x, "campaigns">> :
        x \in {y \in w.responses : y.campaign_id \notin Ids(w.campaigns)}}
    \cup {<<"questions", x, "campaigns">> :
        x \in {y \in w.questions : y.campaign_id \notin Ids(w.campaigns)}}
    \cup {<<"options", x, "questions">> :
        x \in {y \in w.options : y.question_id \notin Ids(w.questions)}}
    \cup {<<"demographic_options", x, "demographic_attributes">> :
        x \in {y \in w.demographic_options :
                 y.attribute_id \notin Ids(w.demographic_attributes)}}
    \cup {<<"campaign_demographics", x, "demographic_attributes">> :
        x \in {y \in w.campaign_demographics :
                 y.attribute_id \notin Ids(w.demographic_attributes)}}
    \cup {<<"campaign_demographics", x, "campaigns">> :
        x \in {y \in w.campaign_demographics :
                 y.campaign_id \notin Ids(w.campaigns)}}

\* s is the beginning of t
IsPrefix(s, t) == Len(s) <= Len(t) /\ s = SubSeq(t, 1, Len(s))

\* the order of the cascade the claim gives for each delete
CascadeOrder(fn) ==
    CASE fn = "delete_campaign" ->
           <<"delete_details_of_campaign", "delete_responses",
             "delete_options_of_campaign", "delete_questions",
             "delete_campaign">>
      [] fn = "delete_question" ->
           <<"delete_details_of_question", "delete_options",
             "delete_question">>
      [] fn = "delete_demographic_attribute" ->
           <<"delete_links", "delete_demographic_options",
             "delete_attribute">>

Cascades ==
    {"delete_campaign", "delete_question", "delete_demographic_attribute"}

\* C14: each cascading delete removes the descendant rows before their
\* parent within one transaction, in the order given, and at no step of the
\* transaction does a child row reference a parent that the cascade has
\* already deleted: every reference that dangles in the transaction dangled
\* in the store before it.
C14_CascadeDeletesChildrenFirst ==
    \A k \in Conns :
       (conn[k].intx /\ conn[k].args.fn \in Cascades) =>
          /\ IsPrefix(conn[k].done, CascadeOrder(conn[k].args.fn))
          /\ Dangling(conn[k].work) \subseteq Dangling(db)

(***************************************************************************)
(* C15                                                                     *)
(***************************************************************************)
\* rows, all of one parent, are the entries of list L in the given order:
\* one row per entry, with display_order 0..len(L)-1 and the entry's text
IsList(rows, L) ==
    /\ Cardinality(rows) = Len(L)
    /\ \A i \in DOMAIN L :
          \E x \in rows : x.display_order = i - 1 /\ x.option_text = L[i]

\* what a step of update_question(q, ..., L) leaves: the options of q are L,
\* under ids that no option has had (AUTOINCREMENT: sqlite_sequence, seq,
\* holds the largest id ever given), and the other options are as before
QuestionOptionsReplaced(q, L) ==
    LET mine == {o \in db'.options : o.question_id = q}
    IN /\ IsList(mine, L)
       /\ \A o \in mine : o.id \notin Ids(db.options)
                          /\ o.id \notin 1..db.seq.options
       /\ {o \in db'.options : o.question_id # q}
             = {o \in db.options : o.question_id # q}

AttributeOptionsReplaced(a, L) ==
    LET mine == {o \in db'.demographic_options : o.attribute_id = a}
    IN /\ IsList(mine, L)
       /\ \A o \in mine : o.id \notin Ids(db.demographic_options)
                          /\ o.id \notin 1..db.seq.demographic_options
       /\ {o \in db'.demographic_options : o.attribute_id # a}
             = {o \in db.demographic_options : o.attribute_id # a}

\* C15: after update_question(q, text, type, max, L) the options of q are
\* exactly the entries of L in the given order with display_order
\* 0..len(L)-1, none of them has an id that any option had before the edit,
\* and the options of every other question are unchanged;
\* update_demographic_attribute replaces the demographic options of its
\* attribute in the same way.
C15_UpdateReplacesOptions ==
    [][/\ \A q \in 1..MaxQuestionId, t \in QuestionTypes, m \in 1..MaxSel,
             L \in EditLists :
             CallUpdateQuestion(q, t, m, L) => QuestionOptionsReplaced(q, L)
       /\ \A a \in AttributeIds, input_type \in InputTypes, L \in EditLists :
             CallUpdateAttribute(a, input_type, L)
                => AttributeOptionsReplaced(a, L)]_vars

\* question 1 was given the list b, a, b, and attribute 1 has then been
\* given the list b, a while attribute 2 had options of its own
C15_Witness ==
    /\ last = Op("update_demographic_attribute", 1, 0)
    /\ IsList({o \in db.demographic_options : o.attribute_id = 1},
              <<"b", "a">>)
    /\ IsList({o \in db.options : o.question_id = 1}, <<"b", "a", "b">>)
    /\ \E o \in db.demographic_options : o.attribute_id = 2


(***************************************************************************)
(* C16: the rows of responses and response_details under every function    *)
(* that writes                                                             *)
(***************************************************************************)
\* no row of the table t keeps its id and changes
NeverUpdated(t) ==
    \A x \in db[t] : \A y \in db'[t] : y.id = x.id => y = x

\* a row of the table t is gone
RowsDeleted(t) == \E x \in db[t] : x.id \notin Ids(db'[t])

\* C16 as stated: a response or response detail, once created, is never
\* updated, and is deleted only by delete_campaign or reset_responses
C16_DeletedOnlyByCampaignDeleteOrReset ==
    [][ /\ NeverUpdated("responses")
        /\ NeverUpdated("response_details")
        /\ RowsDeleted("responses") \/ RowsDeleted("response_details")
             => last'.op \in {"delete_campaign", "reset_responses"} ]_vars

\* C16 amended: a response or response detail, once created, is never
\* updated; responses are deleted only by delete_campaign or reset_responses;
\* response details are deleted only by these two and by delete_question,
\* which removes exactly the details of the deleted question
C16_DeletedOnlyByCascadeOrReset ==
    [][ /\ NeverUpdated("responses")
        /\ NeverUpdated("response_details")
        /\ RowsDeleted("responses")
             => last'.op \in {"delete_campaign", "reset_responses"}
        /\ RowsDeleted("response_details")
             => last'.op \in {"delete_campaign", "reset_responses",
                              "delete_question"}
        /\ last'.op = "delete_question"
             => /\ db'.responses = db.responses
                /\ db'.response_details =
                     {x \in db.response_details : x.question_id # last'.id}
      ]_vars

\* delete_question has removed the answers to question 1 and left the
\* response that held them
C16_Witness ==
    /\ last.op = "delete_question"
    /\ last.id = 1
    /\ 1 \in Ids(db.responses)
    /\ db.response_details = {}
    /\ db.seq.response_details > 0


(***************************************************************************)
(* C17: what reset_responses removes and what it leaves                    *)
(***************************************************************************)
\* the tables that hold no response and no response detail
OtherTables ==
    {"campaigns", "questions", "options", "demographic_attributes",
     "demographic_options", "campaign_demographics", "images", "settings"}

\* every vote_count of get_vote_statistics(campaign_id) is 0
NoVotes(d, campaign_id) ==
    LET stats == get_vote_statistics(d, campaign_id)
    IN \A i \in DOMAIN stats : \A j \in DOMAIN stats[i].options :
          stats[i].options[j].vote_count = 0

ResetRemovesExactly(c) ==
    LET gone == {r \in db.responses : r.campaign_id = c}
    IN /\ db'.responses = db.responses \ gone
       /\ db'.response_details =
            {x \in db.response_details : x.response_id \notin Ids(gone)}
       /\ get_response_count(db', c) = 0
       /\ NoVotes(db', c)
       /\ \A t \in OtherTables : db'[t] = db[t]
       /\ \A o \in 1..MaxCampaignId :
             o # c => get_vote_statistics(db', o) = get_vote_statistics(db, o)

\* C17: reset_responses(c) removes exactly the responses of campaign c and
\* the response details of those responses; afterwards the response count
\* of c is 0 and every vote_count of c is 0, and the campaigns, questions,
\* options and every row of another campaign are as before
C17_ResetRemovesExactlyTheCampaignsResponses ==
    [][ \A c \in 1..MaxCampaignId :
          (admin_ops' # admin_ops /\ last'.op = "reset_responses"
             /\ last'.id = c)
          => ResetRemovesExactly(c) ]_vars

\* reset_responses(1) has removed a response of campaign 1 with its two
\* details, and the response of campaign 2 is there with its votes
C17_Witness ==
    /\ last.op = "reset_responses"
    /\ last.id = 1
    /\ db.seq.responses = 2
    /\ db.seq.response_details = 3
    /\ Cardinality(db.responses) = 1
    /\ Cardinality(db.response_details) = 1
    /\ get_response_count(db, 2) = 1
    /\ ~NoVotes(db, 2)


(***************************************************************************)
(* C18: where a launch leads                                               *)
(***************************************************************************)
\* the campaign with this id is in the store d and is active
ActiveIn(d, campaign_id) ==
    \E c \in d.campaigns : c.id = campaign_id /\ c.is_active

\* the run of session v that this step makes, on the store after init_db
RunRoutes(v) ==
    LET d == init_db(db)
        query_params == page[v].query
        parsed == int(query_params.poll)
        to_voter == /\ query_params.has_poll
                    /\ parsed.ok
                    /\ ActiveIn(d, parsed.value)
    IN /\ page'[v].screen = "voter" <=> to_voter
       /\ voter'[v].pc = "submit" => to_voter
       /\ query_params.has_poll /\ ~parsed.ok
            => page'[v].screen = "invalid_id"
       /\ query_params.has_poll /\ parsed.ok /\ ~ActiveIn(d, parsed.value)
            => page'[v].screen = "no_active_poll"
       /\ ~query_params.has_poll => page'[v].screen = "admin"

\* a response that this step inserts comes from a session whose last run
\* rendered the voter page of that campaign
SubmittedFromVoterPage ==
    \A r \in db'.responses :
       r.id \notin Ids(db.responses)
       => \E v \in Voters :
             /\ voter[v].pc = "submit"
             /\ page[v].screen = "voter"
             /\ int(page[v].query.poll) = [ok |-> TRUE, value |-> r.campaign_id]

\* C18: a run reaches the voter page, and from it the call of
\* submit_response, only when the poll parameter parses as an integer and
\* the campaign with that id exists and is active at the start of the run;
\* a parameter that is no integer, an absent campaign and an inactive
\* campaign each give an error message and no submission; without the
\* parameter the run renders the admin interface
C18_LaunchRouting ==
    [][ /\ \A v \in Voters : page'[v].runs # page[v].runs => RunRoutes(v)
        /\ SubmittedFromVoterPage ]_vars

\* a session opened with ?poll=1 chose an option, the campaign was closed,
\* and the next press gave the error message: nothing was submitted
C18_Witness ==
    /\ page["v1"].query = Query(<<"1">>)
    /\ page["v1"].screen = "no_active_poll"
    /\ voter["v1"].answers # <<>>
    /\ voter["v1"].pc = "idle"
    /\ \E c \in db.campaigns : c.id = 1 /\ ~c.is_active
    /\ db.responses = {}


(***************************************************************************)
(* C19: the lookups of the confirm button and the submission               *)
(***************************************************************************)
\* a press of the confirm button on a fully answered ballot of an active
\* campaign reaches the call of submit_response, whatever the two services
\* answer
ConfirmAlwaysSubmits(v) ==
    LET d == init_db(db)
        s == voter[v]
        campaign == get_campaign(d, s.poll)
        questions == get_questions(d, s.poll)
        loop == QuestionLoop(questions, s.answers, ConfirmTrigger)
    IN (/\ s.pc = "idle"
        /\ campaign.ok /\ campaign.row.is_active
        /\ s.poll \notin s.voted
        /\ questions # <<>>
        /\ loop.outcome = "done"
        /\ AllAnswered(questions, loop.answers))
       => /\ \A after \in PageRun(d, s, ConfirmTrigger) : after.pc = "submit"
          /\ {after.sub.replies : after \in PageRun(d, s, ConfirmTrigger)}
               = Lookups

\* the response that session v inserts in this step has no ip_address if
\* the IP lookup failed and no location_data if the geolocation lookup
\* failed or was not made
FailedLookupsLeaveAbsent(v) ==
    LET r == CHOOSE x \in db'.responses : x.id = db'.seq.responses
        replies == voter[v].sub.replies
    IN /\ LookupFailed(replies.ip) => r.ip_address = SqlNull
       /\ LookupFailed(replies.loc) => r.location_data = SqlNull

\* the same for the geolocation lookup alone
FailedLocationLeavesAbsent(v) ==
    LET r == CHOOSE x \in db'.responses : x.id = db'.seq.responses
    IN LookupFailed(voter[v].sub.replies.loc) => r.location_data = SqlNull

\* C19: a failure of the IP lookup or of the geolocation lookup (exception,
\* timeout, non-success response) leaves the ip and location fields of the
\* response absent, and never prevents the submission
C19_LookupFailureLeavesFieldsAbsent ==
    [][ \A v \in Voters :
          /\ ConfirmAlwaysSubmits(v)
          /\ voter[v].pc = "submit" /\ voter'[v].made # voter[v].made
               => FailedLookupsLeaveAbsent(v) ]_vars

\* what does hold: the submission is never prevented, and a failed
\* geolocation lookup leaves location_data absent
C19_SubmissionNeverPrevented ==
    [][ \A v \in Voters :
          /\ ConfirmAlwaysSubmits(v)
          /\ voter[v].pc = "submit" /\ voter'[v].made # voter[v].made
               => FailedLocationLeavesAbsent(v) ]_vars


(***************************************************************************)
(* C20: the 24 hours of an admin session                                   *)
(***************************************************************************)
\* the seconds since the login timestamp
Elapsed == now - login.login_time.v[1]

\* this step is a run of the admin page, which calls check_login
ChecksLogin ==
    /\ call'.fn = "check_login"
    /\ call'.out[1] = now
    /\ now' = now
    /\ admin_ops' = admin_ops

\* C20: check_login accepts a session only while the flag is set and no
\* more than 24 hours have passed since the login timestamp; the first
\* check after more than 24 hours clears the flag and the timestamp and
\* returns False; a rejected session stays rejected until a password login
\* succeeds
C20_SessionAcceptedFor24Hours ==
    [][ /\ check_login(login, now).ok
           <=> (login.admin_logged_in /\ Elapsed <= 24 * 60 * 60)
        /\ ChecksLogin =>
             /\ call'.out[2] = check_login(login, now).ok
             /\ login.admin_logged_in /\ Elapsed > 24 * 60 * 60
                  => login' = LoggedOut /\ ~call'.out[2]
        /\ ~login.admin_logged_in /\ login'.admin_logged_in
             => /\ call'.fn = "render_login"
                /\ call'.out = <<now, TRUE>>
                /\ login'.login_time = PyInt(now) ]_vars

\* the check one second past the 24 hours of a session logged in at
\* second 1 has returned False and cleared the flag and the timestamp
C20_Witness ==
    /\ now = 24 * 60 * 60 + 2
    /\ call.fn = "check_login"
    /\ call.out = <<now, FALSE,
                    [admin_logged_in |-> TRUE, login_time |-> PyInt(1)]>>
    /\ login = LoggedOut


(***************************************************************************)
(* C21: the lookups of an id or key that no row has                        *)
(***************************************************************************)
\* the table a lookup function reads
LookupTable(fn) ==
    CASE fn = "get_campaign" -> "campaigns"
      [] fn = "get_question" -> "questions"
      [] fn = "get_demographic_attribute" -> "demographic_attributes"
      [] fn = "get_image" -> "images"

\* C21: get_campaign, get_question, get_demographic_attribute and get_image
\* return None for an id that no row has (and the row for an id that a row
\* has), get_setting returns the supplied default for a key that no row
\* has, and none of them changes the store
C21_AbsentLookupsReturnNone ==
    [][ admin_ops' = admin_ops =>
          /\ db' = db
          /\ call'.fn \in LookupFunctions =>
               /\ call'.out.ok <=>
                    call'.campaign_id \in Ids(db[LookupTable(call'.fn)])
               /\ call'.out.ok => call'.out.row.id = call'.campaign_id
          /\ call'.fn = "get_setting" =>
               IF \E x \in db.settings : x.key = call'.field
               THEN \E x \in db.settings :
                       x.key = call'.field /\ call'.out[2] = x.value
               ELSE call'.out[2] = call'.out[1] ]_vars

\* get_setting("theme", "http://poll") has returned its default, the store
\* holding the three default settings and no campaign 1 any more
C21_Witness ==
    /\ call.fn = "get_setting"
    /\ call.field = "theme"
    /\ call.out = <<"http://poll", "http://poll">>
    /\ Cardinality(db.settings) = 3
    /\ 1 \notin Ids(db.campaigns)
    /\ 1 \notin Ids(db.questions)


(***************************************************************************)
(* C22: stored text that does not decode                                   *)
(***************************************************************************)
\* the column holds a text that json.loads rejects
Malformed(col) == Truthy(col) /\ ~json_loads(col.txt).ok

\* the map a column is read as: the decoded map, {} for what does not decode
\* and for no text
ReadAs(col) ==
    IF Truthy(col) /\ json_loads(col.txt).ok THEN json_loads(col.txt).d
    ELSE <<>>

\* the responses rows of the campaign of the last read
RowsRead == {r \in db.responses : r.campaign_id = call.campaign_id}

\* C22: a responses row whose demographic_data or location_data does not
\* decode is read with the empty map for that field: get_voter_logs returns
\* {} for the field, get_demographic_breakdown counts the row under the
\* placeholder, export_responses_data gives empty strings; every row of the
\* campaign is returned, the others with their maps
C22_MalformedTextReadsAsEmptyMap ==
    /\ call.fn = "get_voter_logs" =>
         /\ Cardinality(call.out) = Cardinality(RowsRead)
         /\ \A r \in RowsRead : \E log \in call.out :
               /\ log.id = r.id
               /\ log.demographic_data = ReadAs(r.demographic_data)
               /\ log.location_data = ReadAs(r.location_data)
               /\ Malformed(r.demographic_data) => log.demographic_data = <<>>
               /\ Malformed(r.location_data) => log.location_data = <<>>
    /\ call.fn = "get_demographic_breakdown" =>
         LET data == call.out.data
             malformed == {r \in RowsRead : Malformed(r.demographic_data)}
         IN /\ call.out.total = Cardinality(RowsRead)
            /\ malformed # {} =>
                 \E i \in DOMAIN data :
                    /\ data[i].value = NotSpecified
                    /\ data[i].count >= Cardinality(malformed)
            /\ \A r \in RowsRead :
                  call.field \in DictKeys(ReadAs(r.demographic_data)) =>
                     \E i \in DOMAIN data :
                        data[i].value =
                           DictGet(ReadAs(r.demographic_data), call.field, "")
    /\ call.fn = "export_responses_data" =>
         /\ Cardinality(call.out) = Cardinality(RowsRead)
         /\ \A r \in RowsRead : \E row \in call.out :
               /\ row.id = r.id
               /\ row.gen = DictGet(ReadAs(r.demographic_data), "gen", "")
               /\ row.phet = DictGet(ReadAs(r.demographic_data), "phet", "")
               /\ row.city = DictGet(ReadAs(r.location_data), "city", "")
               /\ Malformed(r.demographic_data) =>
                     /\ row.amphoe = "" /\ row.phuenthi = ""
                     /\ row.gen = "" /\ row.phet = ""
               /\ Malformed(r.location_data) =>
                     row.city = "" /\ row.country = "" /\ row.isp = ""

\* an export of two rows: one whose two texts do not decode, with empty
\* strings, and one with its generation and its city
C22_Witness ==
    /\ call.fn = "export_responses_data"
    /\ Cardinality(call.out) = 2
    /\ \E r \in RowsRead :
          Malformed(r.demographic_data) /\ Malformed(r.location_data)
    /\ \E row \in call.out : row.gen = "" /\ row.city = ""
    /\ \E row \in call.out : row.gen = "geny" /\ row.city = "phangnga"


(***************************************************************************)
(* C23: reading twice                                                      *)
(***************************************************************************)
\* this step is a read
ReadStep == admin_ops' = admin_ops

\* this step is a read that repeats the read before it, and no write has
\* been made between the two
RepeatsRead ==
    /\ ReadStep
    /\ call.fn \in {"get_campaign", "get_questions"}
    /\ call'.fn = call.fn
    /\ call'.campaign_id = call.campaign_id
    /\ call.out[2] = db

RECURSIVE DeleteAttributes(_, _)
DeleteAttributes(d, ids) ==
    IF ids = {} THEN d
    ELSE LET i == CHOOSE x \in ids : TRUE
         IN DeleteAttributes(delete_demographic_attribute(d, i), ids \ {i})

\* app.py main, line 31: a run that only initializes
RunInitDb ==
    /\ presses < MaxPresses
    /\ init_db(db).seq.campaigns <= MaxCampaignId
    /\ db' = init_db(db)
    /\ last' = Op("init_db", 0, 0)
    /\ belonged' = Track(belonged, init_db(db))
    /\ call' = [NoCall EXCEPT !.fn = "init_db", !.out = <<db, init_db(db)>>]
    /\ presses' = presses + 1
    /\ UNCHANGED <<tx_vars, login_vars, voter, admin, admin_ops>>

InitSeed ==
    /\ db \in {DeleteAttributes(init_db(EmptyStore), ids) :
                 ids \in SUBSET Ids(init_db(EmptyStore).demographic_attributes)}
    /\ voter = [v \in Voters |-> NewVoter]
    /\ admin = [a \in Admins |-> IdleAdmin]
    /\ admin_ops = 0
    /\ presses = 0
    /\ last = NoOp
    /\ belonged = Track(NoOwners, db)
    /\ call = NoCall
    /\ Quiet

NextSeed ==
    \/ RunInitDb
    \/ \E a \in Admins, c \in 1..MaxCampaignId : AdminCreateQuestionRead(a, c)
    \/ \E a \in Admins, options \in FilledOptions :
          AdminCreateQuestionWrite(a, "single", 1, options)
    \/ \E c \in 1..MaxCampaignId : AdminDeleteCampaign(c)
    \/ \E i \in AttributeIds : AdminDeleteAttribute(i)

SpecSeed == InitSeed /\ [][NextSeed]_vars

\* the tables init_db seeds, and for each the table whose COUNT(*) it tests
SeedTables ==
    {"settings", "demographic_attributes", "demographic_options",
     "campaigns", "questions", "options"}
CountedFor(t) ==
    CASE t = "demographic_options" -> "demographic_attributes"
      [] t \in {"questions", "options"} -> "campaigns"
      [] OTHER -> t

\* the store is the one the last run of init_db left
InitRan == call.fn = "init_db" /\ db = call.out[2]
StoreBeforeInit == call.out[1]

\* C24 as stated: a second init_db leaves every table as the first run left
\* it, and a run of init_db inserts rows only into a table that was empty
C24_SeedsOnlyIntoEmptyTables ==
    InitRan =>
       /\ init_db(db) = db
       /\ \A t \in SeedTables :
             db[t] # StoreBeforeInit[t] => StoreBeforeInit[t] = {}

\* C24 amended: a second init_db leaves the whole store as the first run left
\* it; a run of init_db removes no row, touches only the seeded tables, and
\* inserts into a table only when the table whose rows it counts for it
\* (settings; demographic_attributes for the attributes and their options;
\* campaigns for the campaign, its question and the options) was empty
C24_InitIsIdempotent ==
    InitRan =>
       /\ init_db(db) = db
       /\ \A t \in DOMAIN db \ (SeedTables \cup {"seq"}) :
             db[t] = StoreBeforeInit[t]
       /\ \A t \in SeedTables :
             /\ StoreBeforeInit[t] \subseteq db[t]
             /\ db[t] # StoreBeforeInit[t] =>
                   StoreBeforeInit[CountedFor(t)] = {}

\* a run seeded the sample campaign while the questions table held a question
\* of a deleted campaign
C24_Witness ==
    /\ InitRan
    /\ StoreBeforeInit.campaigns = {}
    /\ StoreBeforeInit.questions # {}
    /\ db.questions # StoreBeforeInit.questions
    /\ init_db(db) = db


(***************************************************************************)
(* Specification SpecSettings: calls of set_setting and delete_setting on  *)
(* two connections, statement by statement.  The SELECT of set_setting     *)
(* reads the committed store and begins no transaction; the UPDATE, INSERT *)
(* or DELETE waits for the write lock, and the lock is held to the commit. *)
(* presses counts the calls made.  call.out keeps, for every key, the      *)
(* value of the set_setting call that ended last and whether that call ran *)
(* alone, with no other call open at any time from its start to its end    *)
(* (history).                                                              *)
(***************************************************************************)
SettingValues == {"a", "b"}
SettingCallKeys == {"server_url", "theme"}

NoSetting == [set |-> FALSE, value |-> "", alone |-> TRUE]
SetTo(value, alone) == [set |-> TRUE, value |-> value, alone |-> alone]

\* the connection is inside a call
InCall(c) == c.pc \in {"select", "write", "commit"}

SettingCall(fn, key, value) == [fn |-> fn, key |-> key, value |-> value]

\* the call is made and get_connection() opens the connection
SettingOpen(k, fn, key, value) ==
    /\ conn[k].pc \in {"closed", "done", "failed"}
    /\ presses < MaxPresses
    /\ presses' = presses + 1
    /\ conn' = [j \in Conns |->
         IF j = k
         THEN [pc |-> IF fn = "set_setting" THEN "select" ELSE "write",
               args |-> SettingCall(fn, key, value), found |-> FALSE,
               intx |-> FALSE, work |-> EmptyStore,
               overlapped |-> \E i \in Conns \ {k} : InCall(conn[i])]
         ELSE IF InCall(conn[j]) THEN [conn[j] EXCEPT !.overlapped = TRUE]
         ELSE conn[j]]
    /\ UNCHANGED <<db, voter, admin, admin_ops, last, belonged, call, serial,
                   login_vars>>

\* set_setting: SELECT id FROM settings WHERE key = ?; fetchone()
SettingSelect(k) ==
    /\ conn[k].pc = "select"
    /\ conn' = [conn EXCEPT
         ![k].pc = "write",
         ![k].found = \E x \in db.settings : x.key = conn[k].args.key]
    /\ UNCHANGED <<db, voter, admin, admin_ops, presses, last, belonged,
                   call, serial, login_vars>>

\* the INSERT of set_setting meets a row with the key: UNIQUE constraint
\* failed
KeyTaken(k) ==
    /\ conn[k].args.fn = "set_setting"
    /\ ~conn[k].found
    /\ \E x \in db.settings : x.key = conn[k].args.key

\* the store after the UPDATE, INSERT or DELETE of the call
SettingWritten(k) ==
    LET a == conn[k].args
    IN IF a.fn = "delete_setting" THEN delete_setting(db, a.key)
       ELSE IF conn[k].found
       THEN [db EXCEPT !.settings =
               {IF x.key = a.key THEN [x EXCEPT !.value = a.value] ELSE x
                : x \in @}]
       ELSE [db EXCEPT !.settings = @ \cup {[id |-> db.seq.settings + 1,
                                             key |-> a.key,
                                             value |-> a.value]},
                       !.seq.settings = @ + 1]

\* what is known of the settings once the call of connection k has ended
Ended(k) ==
    [call EXCEPT !.out = [@ EXCEPT ![conn[k].args.key] =
        IF conn[k].args.fn = "set_setting"
        THEN SetTo(conn[k].args.value, ~conn[k].overlapped)
        ELSE NoSetting]]

\* the UPDATE, INSERT or DELETE: the transaction begins
SettingWrite(k) ==
    /\ conn[k].pc = "write"
    /\ WriteLockFree(k)
    /\ ~KeyTaken(k)
    /\ conn' = [conn EXCEPT ![k].pc = "commit", ![k].intx = TRUE,
                            ![k].work = SettingWritten(k)]
    /\ UNCHANGED <<db, voter, admin, admin_ops, presses, last, belonged,
                   call, serial, login_vars>>

\* the INSERT raises sqlite3.IntegrityError; the connection closes and the
\* call ends with the exception
SettingIntegrityError(k) ==
    /\ conn[k].pc = "write"
    /\ WriteLockFree(k)
    /\ KeyTaken(k)
    /\ conn' = [conn EXCEPT ![k].pc = "failed"]
    /\ call' = Ended(k)
    /\ UNCHANGED <<db, voter, admin, admin_ops, presses, last, belonged,
                   serial, login_vars>>

\* conn.commit(), the return and the close
SettingCommit(k) ==
    /\ conn[k].pc = "commit"
    /\ Commit(conn[k].work, Op(conn[k].args.fn, 0, 0))
    /\ conn' = [conn EXCEPT ![k].pc = "done", ![k].intx = FALSE,
                            ![k].work = EmptyStore]
    /\ call' = Ended(k)
    /\ UNCHANGED <<voter, admin, admin_ops, presses, serial, login_vars>>

InitSettings ==
    /\ db = init_db(EmptyStore)
    /\ voter = [v \in Voters |-> NewVoter]
    /\ admin = [a \in Admins |-> IdleAdmin]
    /\ admin_ops = 0
    /\ presses = 0
    /\ last = NoOp
    /\ belonged = Track(NoOwners, db)
    /\ call = [NoCall EXCEPT !.fn = "settings",
                             !.out = [key \in SettingCallKeys |-> NoSetting]]
    /\ Quiet

NextSettings ==
    \E k \in Conns :
       \/ \E key \in SettingCallKeys, value \in SettingValues :
             SettingOpen(k, "set_setting", key, value)
       \/ \E key \in SettingCallKeys : SettingOpen(k, "delete_setting", key, "")
       \/ SettingSelect(k)
       \/ SettingWrite(k)
       \/ SettingIntegrityError(k)
       \/ SettingCommit(k)

SpecSettings == InitSettings /\ [][NextSettings]_vars

\* no two rows of settings have the same key
OneRowPerKey ==
    \A x, y \in db.settings : x.key = y.key => x = y

\* a set_setting call that ran alone and was the last call for its key to
\* end: get_setting returns its value
LastSetIsRead ==
    \A key \in SettingCallKeys :
       call.out[key].set /\ call.out[key].alone =>
          get_setting(db, key, "") = call.out[key].value

\* no call has ended with an exception
NoCallRaised == \A k \in Conns : conn[k].pc # "failed"

\* what holds of the settings in every state: one row per key, and the value
\* of the last set_setting is the one read
SettingsKeptPerKey == OneRowPerKey /\ LastSetIsRead

\* C25: after any sequence or overlap of set_setting and delete_setting
\* calls there is at most one row per key, every set_setting call has
\* updated the row of its key or inserted one (none has failed), and
\* get_setting(key) returns the value of the most recent set_setting for the
\* key
C25_SettingsAreUpserted ==
    /\ OneRowPerKey
    /\ NoCallRaised
    /\ LastSetIsRead


(***************************************************************************)
(* The admin pages (src/views/admin_ui.py render_admin_app, lines          *)
(* 938-1051).  A session is st.session_state: admin_view,                  *)
(* selected_campaign (0 for None) and confirm_reset, with two history      *)
(* fields: raised_for, the campaign whose reset button raised the pending  *)
(* confirmation, and submitted, whether the session submitted the admin    *)
(* password and has not pressed logout since.  A press of a widget is a    *)
(* page run: init_db, check_login, then either render_login or the sidebar *)
(* and the routed view, where the handler of the pressed widget runs.      *)
(* call keeps the handler that ran, the campaign it was given, the time,   *)
(* what check_login returned, and the two history fields and the login     *)
(* state before the run.                                                   *)
(***************************************************************************)
NewSession ==
    [admin_view |-> "campaigns", selected_campaign |-> 0,
     confirm_reset |-> FALSE, raised_for |-> 0, submitted |-> FALSE]

\* lines 1026-1051: the view that is rendered
Routed(s) ==
    IF s.admin_view \in {"demographics", "images", "server_settings"}
    THEN s.admin_view
    ELSE IF s.admin_view = "campaigns" \/ s.selected_campaign = 0
    THEN "campaigns"
    ELSE s.admin_view

\* render_admin_app, lines 940-943
Gate(session, t) == check_login(session, t)

\* a page run for a pressed widget of session a: when check_login returns
\* True the handler fn runs with target and leaves the store d and the session
\* s; when it returns False the run renders the login page and stops
UiRun(a, fn, target, d, s) ==
    LET checked == Gate(login, now)
        before == <<now, checked.ok, admin[a].raised_for, admin[a].submitted,
                    login>>
    IN /\ login' = checked.session
       /\ IF checked.ok
          THEN /\ Commit(d, Op(fn, target, 0))
               /\ admin' = [admin EXCEPT ![a] = s]
               /\ call' = [fn |-> fn, campaign_id |-> target, field |-> "",
                           out |-> before]
          ELSE /\ Commit(init_db(db), Op("render_login", 0, 0))
               /\ admin' = admin
               /\ call' = [fn |-> "render_login", campaign_id |-> 0,
                           field |-> "", out |-> before]
       /\ UNCHANGED <<tx_vars, now, page, voter, presses>>

\* render_login, lines 80-86: the login button with this password typed; the
\* page is rendered when check_login returned False
UiLogin(a, password) ==
    LET d == init_db(db)
        checked == Gate(login, now)
        accepted == password = get_setting(d, "admin_password", "superpoll2025")
    IN /\ ~checked.ok
       /\ Commit(d, Op("render_login", 0, 0))
       /\ login' = IF accepted
                   THEN [admin_logged_in |-> TRUE, login_time |-> PyInt(now)]
                   ELSE checked.session
       /\ admin' = [admin EXCEPT ![a].submitted = accepted]
       /\ call' = [fn |-> "render_login", campaign_id |-> 0, field |-> "",
                   out |-> <<now, FALSE, admin[a].raised_for,
                             admin[a].submitted, login>>]
       /\ UNCHANGED <<tx_vars, now, page, voter, admin_ops, presses>>

\* lines 1020-1024: the logout button
UiLogout(a) ==
    LET checked == Gate(login, now)
    IN /\ Commit(init_db(db),
                 Op(IF checked.ok THEN "logout" ELSE "render_login", 0, 0))
       /\ login' = IF checked.ok THEN LoggedOut ELSE checked.session
       /\ admin' = [admin EXCEPT ![a].submitted = @ /\ ~checked.ok]
       /\ call' = [fn |-> IF checked.ok THEN "logout" ELSE "render_login",
                   campaign_id |-> 0, field |-> "",
                   out |-> <<now, checked.ok, admin[a].raised_for,
                             admin[a].submitted, login>>]
       /\ UNCHANGED <<tx_vars, now, page, voter, admin_ops, presses>>

\* lines 952-955: the campaigns button of the sidebar
UiMenuCampaigns(a) ==
    /\ UiRun(a, "menu", 0, init_db(db),
             [admin[a] EXCEPT !.admin_view = "campaigns",
                              !.selected_campaign = 0])
    /\ UNCHANGED admin_ops

\* lines 1003-1006: the server settings button of the sidebar
UiMenuServer(a) ==
    /\ UiRun(a, "menu", 0, init_db(db),
             [admin[a] EXCEPT !.admin_view = "server_settings",
                              !.selected_campaign = 0])
    /\ UNCHANGED admin_ops

\* render_campaign_list, lines 122-125: the results button of campaign c
UiViewCampaign(a, c) ==
    /\ Routed(admin[a]) = "campaigns"
    /\ c \in Ids(init_db(db).campaigns)
    /\ UiRun(a, "view", c, init_db(db),
             [admin[a] EXCEPT !.admin_view = "results",
                              !.selected_campaign = c])
    /\ UNCHANGED admin_ops

\* the views of the campaign menu of the sidebar that are followed here
CampaignViews == {"questions", "danger"}

\* lines 963-990: a button of the campaign menu, shown when the selected
\* campaign is found
UiMenuCampaign(a, view) ==
    /\ admin[a].selected_campaign # 0
    /\ get_campaign(init_db(db), admin[a].selected_campaign).ok
    /\ UiRun(a, "menu", admin[a].selected_campaign, init_db(db),
             [admin[a] EXCEPT !.admin_view = view])
    /\ UNCHANGED admin_ops

\* render_danger_zone, lines 517-518: the reset button
UiPressReset(a) ==
    /\ Routed(admin[a]) = "danger"
    /\ UiRun(a, "press_reset", admin[a].selected_campaign, init_db(db),
             [admin[a] EXCEPT !.confirm_reset = TRUE,
                              !.raised_for = admin[a].selected_campaign])
    /\ UNCHANGED admin_ops

\* render_danger_zone, lines 520-527: the confirm button, shown while
\* confirm_reset is set
UiConfirmReset(a) ==
    /\ Routed(admin[a]) = "danger"
    /\ admin[a].confirm_reset
    /\ UiRun(a, "reset_responses", admin[a].selected_campaign,
             reset_responses(init_db(db), admin[a].selected_campaign),
             [admin[a] EXCEPT !.confirm_reset = FALSE, !.raised_for = 0])
    /\ AdminOp

\* render_danger_zone, lines 529-531: the cancel button
UiCancelReset(a) ==
    /\ Routed(admin[a]) = "danger"
    /\ admin[a].confirm_reset
    /\ UiRun(a, "cancel_reset", admin[a].selected_campaign, init_db(db),
             [admin[a] EXCEPT !.confirm_reset = FALSE, !.raised_for = 0])
    /\ UNCHANGED admin_ops

\* render_campaign_list, lines 143-149: the confirm button for the campaign
\* kept in confirm_delete
UiDeleteCampaign(a, c) ==
    /\ Routed(admin[a]) = "campaigns"
    /\ c \in Ids(init_db(db).campaigns)
    /\ UiRun(a, "delete_campaign", c, delete_campaign(init_db(db), c), admin[a])
    /\ AdminOp

\* render_question_builder, line 221: the delete button of question q of the
\* selected campaign
UiDeleteQuestion(a, q) ==
    /\ Routed(admin[a]) = "questions"
    /\ get_campaign(init_db(db), admin[a].selected_campaign).ok
    /\ \E x \in init_db(db).questions :
          x.id = q /\ x.campaign_id = admin[a].selected_campaign
    /\ UiRun(a, "delete_question", q, delete_question(init_db(db), q),
             admin[a])
    /\ AdminOp

\* render_server_settings, line 777: a new password is saved
UiSetPassword(a, new_password) ==
    /\ Routed(admin[a]) = "server_settings"
    /\ new_password # get_setting(init_db(db), "admin_password",
                                  "superpoll2025")
    /\ UiRun(a, "set_setting", 0,
             set_setting(init_db(db), "admin_password", new_password),
             admin[a])
    /\ AdminOp

\* the instants of the runs of the admin pages
UiInstants == {1, SESSION_TIMEOUT + 2}

InitUi ==
    /\ db = submit_response(TwoCampaigns, 1, <<>>, << <<1, PyList(<<1>>)>> >>,
                            SqlNull, NoneDict)
    /\ voter = [v \in Voters |-> NewVoter]
    /\ admin = [a \in Admins |-> NewSession]
    /\ admin_ops = 0
    /\ presses = 0
    /\ last = NoOp
    /\ belonged = Track(NoOwners, db)
    /\ call = NoCall
    /\ Quiet

NextUi ==
    \/ \E t \in UiInstants : Tick(t)
    \/ \E c \in 1..MaxCampaignId : SubmitBallot(c, 0, 1)
    \/ \E password \in Passwords : UiLogin("a1", password)
    \/ UiLogout("a1")
    \/ UiMenuCampaigns("a1")
    \/ UiMenuServer("a1")
    \/ \E c \in 1..MaxCampaignId : UiViewCampaign("a1", c)
    \/ \E view \in CampaignViews : UiMenuCampaign("a1", view)
    \/ UiPressReset("a1")
    \/ UiConfirmReset("a1")
    \/ UiCancelReset("a1")
    \/ \E c \in 1..MaxCampaignId : UiDeleteCampaign("a1", c)
    \/ \E q \in 1..MaxQuestionId : UiDeleteQuestion("a1", q)
    \/ \E new_password \in Passwords : UiSetPassword("a1", new_password)

SpecUi == InitUi /\ [][NextUi]_vars

\* C26: reset_responses is executed only for the campaign whose reset button
\* raised the confirmation that was confirmed
C26_ResetOnlyForTheCampaignPressed ==
    call.fn = "reset_responses" => call.campaign_id = call.out[3]


\* the handlers behind the login: the sidebar, the views and the writes
AdminHandlers ==
    {"logout", "menu", "view", "press_reset", "cancel_reset",
     "reset_responses", "delete_campaign", "delete_question", "set_setting"}
AdminWrites ==
    {"reset_responses", "delete_campaign", "delete_question", "set_setting"}

\* the session the last run started with had been logged in by a submitted
\* password, no logout since, at most SESSION_TIMEOUT seconds before the run
RunWasLoggedIn ==
    /\ call.out[2]
    /\ call.out[4]
    /\ call.out[5].admin_logged_in
    /\ call.out[5].login_time.k = "int"
    /\ call.out[1] - call.out[5].login_time.v[1] <= SESSION_TIMEOUT

\* C29: an admin view or write runs only in a page run in which check_login
\* returned True, for a session that submitted the admin password, has not
\* pressed logout since and logged in at most 24 hours before; a session
\* that never submitted the password or pressed logout is not logged in (it
\* reaches only the login page); and whenever the logged-in flag is set the
\* login timestamp is set
C29_AdminPagesNeedLogin ==
    /\ call.fn \in AdminHandlers => RunWasLoggedIn
    /\ ~admin["a1"].submitted => ~login.admin_logged_in
    /\ login.admin_logged_in => login.login_time.k = "int"

\* an admin write ran for a session that logged in later than
\* SESSION_TIMEOUT seconds after the start
C29_Witness ==
    /\ call.fn \in AdminWrites
    /\ RunWasLoggedIn
    /\ call.out[1] > SESSION_TIMEOUT


(***************************************************************************)
(* The options the response details refer to                               *)
(***************************************************************************)
\* the detail row refers to an option of its own question
RefersToOption(d, rd) ==
    \E o \in d.options :
       o.id = rd.option_id /\ o.question_id = rd.question_id

\* total_votes of question q as get_vote_statistics returns it, 0 when the
\* question is not in the store
TotalVotes(d, q) ==
    IF q \in Ids(d.questions)
    THEN QuestionStatistics(d, CHOOSE x \in d.questions : x.id = q).total_votes
    ELSE 0

\* C27: in every reachable state every response_details row's option_id
\* refers to an existing options row of the detail's question, also after
\* update_question on a question that has votes; the total_votes of a
\* question then counts every detail row of the question
C27_DetailsReferToExistingOptions ==
    /\ \A rd \in db.response_details : RefersToOption(db, rd)
    /\ \A q \in Ids(db.questions) :
          TotalVotes(db, q) =
             Cardinality({rd \in db.response_details : rd.question_id = q})


(***************************************************************************)
(* The rows the campaign_demographics rows refer to                        *)
(***************************************************************************)
\* the link row refers to a campaign and to an attribute of the store
LinkRefersToRows(d, x) ==
    /\ x.campaign_id \in Ids(d.campaigns)
    /\ x.attribute_id \in Ids(d.demographic_attributes)

\* C28: in every reachable state every campaign_demographics row refers to
\* an existing campaign and an existing demographic attribute; after
\* delete_campaign(c) no row has campaign_id c, after
\* delete_demographic_attribute(a) no row has attribute_id a
C28_LinksReferToExistingRows ==
    /\ \A x \in db.campaign_demographics : LinkRefersToRows(db, x)
    /\ last.op = "delete_campaign" =>
          \A x \in db.campaign_demographics : x.campaign_id # last.id
    /\ last.op = "delete_demographic_attribute" =>
          \A x \in db.campaign_demographics : x.attribute_id # last.id

\* the part that holds: the rows refer to existing attributes, and
\* delete_demographic_attribute leaves no row of the attribute
LinksReferToAttributes ==
    /\ \A x \in db.campaign_demographics :
          x.attribute_id \in Ids(db.demographic_attributes)
    /\ last.op = "delete_demographic_attribute" =>
          \A x \in db.campaign_demographics : x.attribute_id # last.id


(***************************************************************************)
(* Specification SpecRuns: page runs that delete, each followed at once by *)
(* the run st.rerun() starts.  call.out keeps the store the last init_db   *)
(* of the run found.                                                       *)
(***************************************************************************)
\* a handler that ends without another run
RerunSkipped(d) == d

\* st.rerun(): main() runs again, and calls init_db first
Rerun(d) == init_db(d)

\* what a page run leaves in call
Ran(found) == [NoCall EXCEPT !.fn = "run", !.out = <<found>>]

\* a page run without a press
RunPage ==
    /\ Commit(init_db(db), Op("init_db", 0, 0))
    /\ call' = Ran(db)
    /\ UNCHANGED <<tx_vars, login_vars, voter, admin, admin_ops, presses>>

\* render_campaign_list, lines 146-150: the delete is confirmed
RunDeleteCampaign(c) ==
    LET d == delete_campaign(init_db(db), c)
    IN /\ c \in Ids(init_db(db).campaigns)
       /\ Commit(Rerun(d), Op("delete_campaign", c, 0))
       /\ call' = Ran(d)
       /\ AdminOp
       /\ UNCHANGED <<tx_vars, login_vars, voter, admin, presses>>

\* render_demographic_settings, lines 827-831: the delete is confirmed
RunDeleteAttribute(attr_id) ==
    LET d == delete_demographic_attribute(init_db(db), attr_id)
    IN /\ attr_id \in Ids(init_db(db).demographic_attributes)
       /\ Commit(Rerun(d), Op("delete_demographic_attribute", attr_id, 0))
       /\ call' = Ran(d)
       /\ AdminOp
       /\ UNCHANGED <<tx_vars, login_vars, voter, admin, presses>>

\* the keys create_default_settings inserts
DefaultSettingKeys == {default_settings[i][1] : i \in DOMAIN default_settings}

\* delete_setting called between two page runs (no page calls it)
CallDeleteSetting(key) ==
    /\ presses < MaxPresses
    /\ presses' = presses + 1
    /\ \E x \in db.settings : x.key = key
    /\ Commit(delete_setting(db, key), Op("delete_setting", 0, 0))
    /\ call' = [NoCall EXCEPT !.fn = "delete_setting", !.field = key]
    /\ UNCHANGED <<tx_vars, login_vars, voter, admin, admin_ops>>

NextRuns ==
    \/ RunPage
    \/ \E c \in 1..MaxCampaignId : RunDeleteCampaign(c)
    \/ \E i \in AttributeIds : RunDeleteAttribute(i)
    \/ \E key \in DefaultSettingKeys : CallDeleteSetting(key)

SpecRuns == InitSeed /\ [][NextRuns]_vars

PageRan == call.fn = "run"

\* the only campaign of the store has one question, of type single, with
\* four options
SampleCampaignOnly(d) ==
    \E c \in d.campaigns :
       /\ d.campaigns = {c}
       /\ \E q \in d.questions :
             /\ {x \in d.questions : x.campaign_id = c.id} = {q}
             /\ q.question_type = "single"
             /\ Cardinality({o \in d.options : o.question_id = q.id}) = 4

\* C30: after every page run the campaigns table is non-empty; a run that
\* found it empty (the last campaign was deleted) has re-created the default
\* campaign with one single-type question and four options; likewise the
\* default demographic attributes and the default settings are there again
\* after a run that found their tables empty
C30_RunsLeaveCampaigns ==
    PageRan =>
       /\ db.campaigns # {}
       /\ db.demographic_attributes # {}
       /\ db.settings # {}
       /\ call.out[1].campaigns = {} => SampleCampaignOnly(db)
       /\ call.out[1].demographic_attributes = {} =>
             {x.name : x \in db.demographic_attributes} =
                {DefaultAttributes[i].name : i \in DOMAIN DefaultAttributes}
       /\ call.out[1].settings = {} =>
             {x.key : x \in db.settings} = DefaultSettingKeys

\* the run that deleted the last campaign has ended, and the default campaign
\* is in the store under a new id
C30_Witness ==
    /\ PageRan
    /\ last.op = "delete_campaign"
    /\ call.out[1].campaigns = {}
    /\ \E c \in db.campaigns : c.id # last.id

====
